---- MODULE Spec2Model ----
\* A model of the ASP.NET Web-Forms scraping engine of this repository:
\*   src/gui_std.py        TantaScraperApp (Tk front-end, worker threads)
\*   src/std_list.py       interactive command-line variant
\*   src/list_students.py  curl-replay variant (report parser only)
\* Non-ASCII literals of the source are written as ASCII tokens here:
\*   "CHOOSE"  for the placeholder marker   (gui_std.py:517)
\*   "LEVEL"   for the level marker         (gui_std.py:601)
\*   "NAMEHDR" for the student-name header  (gui_std.py:880)
\*   "REPORT"  for the report button value  (gui_std.py:767)
EXTENDS Integers, Sequences, FiniteSets, TLC

\* ---------------------------------------------------------------- bounds
\* Worker threads alive at the same time.
MaxThreads == 2
\* Session objects ever created (1 + number of toggle_account calls).
MaxSessions == 2
\* User gestures made while a worker thread is alive or a callback is pending
\* (gestures made when the application is at rest are not bounded).
MaxGestures == 1

\* The same for a user who is impatient with the SubjSem combo box, STOP,
\* DOWNLOAD ALL and the account switch only.
MaxBatchGestures == 4
\* Rows of a report page.
MaxRows == 3
\* Report pages of the header and course-code checks: cells of a header row,
\* rows of a page, symbols of the page text.
MaxHeaderCells == 9
MaxHeaderPageRows == 2
MaxText == 5
\* The <option>s of the <select> the option cleaning is run on alone.
MaxOptions == 6
\* The <input>s of the page the form codec is run on alone.
MaxInputs == 3

\* ------------------------------------------------------ generic helpers
Put(f, k, v) ==
    [x \in (DOMAIN f) \cup {k} |-> IF x = k THEN v ELSE f[x]]

Restrict(f, S) ==
    [x \in (DOMAIN f) \cap S |-> f[x]]

Get(f, k, default) ==
    IF k \in DOMAIN f THEN f[k] ELSE default

EmptyMap == <<>>

\* A variant of Take that keeps the whole list.
TakeAll(s, n) ==
    s

Take(s, n) ==
    IF Len(s) <= n THEN s ELSE SubSeq(s, 1, n)

RemoveAt(s, i) ==
    SubSeq(s, 1, i - 1) \o SubSeq(s, i + 1, Len(s))

Reverse(s) ==
    [i \in 1..Len(s) |-> s[Len(s) + 1 - i]]

\* Python's `marker in txt` on a text given as a sequence of symbols.
Contains(txt, marker) ==
    \E i \in 0..(Len(txt) - Len(marker)) :
        \A j \in 1..Len(marker) : txt[i + j] = marker[j]

\* Python's txt.startswith(prefix).
StartsWith(txt, prefix) ==
    /\ Len(prefix) <= Len(txt)
    /\ \A j \in 1..Len(prefix) : txt[j] = prefix[j]

\* Texts are sequences of symbols; NBSP is the non-breaking space.
NBSP == "nbsp"

IsSpace(c) == c \in {" ", NBSP}

\* str.strip(): leading and trailing white space (NBSP is white space too).
RECURSIVE Strip(_)
Strip(txt) ==
    IF txt = <<>> THEN txt
    ELSE IF IsSpace(txt[1]) THEN Strip(Tail(txt))
    ELSE IF IsSpace(txt[Len(txt)]) THEN Strip(SubSeq(txt, 1, Len(txt) - 1))
    ELSE txt

\* ------------------------------------------------- the fixed step sequence
\* seq of on_selection / process_next_step
seq == <<"Year", "Faculty", "Regulation", "Phase", "Dept",
         "Semester", "Door", "SubjSem", "Subject">>

Steps == {seq[i] : i \in 1..Len(seq)}

SeqIndex(key) ==
    CHOOSE i \in 1..Len(seq) : seq[i] = key

\* seq[current_index + 1:]
NextSteps(key) ==
    {seq[i] : i \in (SeqIndex(key) + 1)..Len(seq)}

\* self.id_map
id_map ==
    [k \in Steps |->
        CASE k = "Year" -> "ctl00_ContentPlaceHolder3_ddl_acad_year"
          [] k = "Faculty" -> "ctl00_ContentPlaceHolder3_ddl_fac"
          [] k = "Regulation" -> "ctl00_ContentPlaceHolder3_ddl_bylaw"
          [] k = "Phase" -> "ctl00_ContentPlaceHolder3_ddl_phase"
          [] k = "Dept" -> "ctl00_ContentPlaceHolder3_ddl_dept"
          [] k = "Semester" -> "ctl00_ContentPlaceHolder3_ddl_semester"
          [] k = "Door" -> "ctl00_ContentPlaceHolder3_door"
          [] k = "SubjSem" -> "ctl00_ContentPlaceHolder3_ddl_semester_subject"
          [] OTHER -> "ctl00_ContentPlaceHolder3_ddl_subj"]

\* The name attribute the server gives the <select> with a given id.
ServerName ==
    [k \in Steps |->
        CASE k = "Year" -> "ctl00$ContentPlaceHolder3$ddl_acad_year"
          [] k = "Faculty" -> "ctl00$ContentPlaceHolder3$ddl_fac"
          [] k = "Regulation" -> "ctl00$ContentPlaceHolder3$ddl_bylaw"
          [] k = "Phase" -> "ctl00$ContentPlaceHolder3$ddl_phase"
          [] k = "Dept" -> "ctl00$ContentPlaceHolder3$ddl_dept"
          [] k = "Semester" -> "ctl00$ContentPlaceHolder3$ddl_semester"
          [] k = "Door" -> "ctl00$ContentPlaceHolder3$door"
          [] k = "SubjSem" -> "ctl00$ContentPlaceHolder3$ddl_semester_subject"
          [] OTHER -> "ctl00$ContentPlaceHolder3$ddl_subj"]

ReportButton == "ctl00$ContentPlaceHolder3$Button1"

\* --------------------------------------------------------------- pages
\* The value of an attribute the element does not have.
NoAttr == "<none>"

\* A parsed page: the status of the response it was parsed from (0: no page,
\* current_soup = None), its <input> elements in document order
\* (name, value; NoAttr when the attribute is missing) and its <select>s by id
\* (name, <option>s, and the position of the first <option> that carries the
\* selected attribute, 0 when none does).
NoPage == [st |-> 0, inputs |-> <<>>, selects |-> EmptyMap]

\* The __VIEWSTATE blob the server renders for a session.
ViewState(s) ==
    <<"vs1", "vs2", "vs3", "vs4">>[s]

ChooseLabel == <<"CHOOSE">>

SelectWord == <<"Select">>

LevelMarker == <<"LEVEL">>

\* The <option>s the server renders in the <select> of a step: a placeholder
\* first, then the real entries (value, label).
ServerOptions(k) ==
    CASE k = "Subject" ->
            << <<"0", ChooseLabel>>, <<"5", <<"a">> >>, <<"6", <<"b">> >> >>
      [] k = "Phase" ->
            << <<"0", ChooseLabel>>, <<"5", <<"LEVEL", "1">> >>,
               <<"9", <<"other">> >> >>
      [] OTHER ->
            << <<"0", ChooseLabel>>, <<"5", <<"a">> >> >>

LoginPage(s) ==
    [st |-> 200,
     inputs |-> << [name |-> "__VIEWSTATE", value |-> ViewState(s)] >>,
     selects |-> EmptyMap]

CascadePage(s) ==
    [st |-> 200,
     inputs |-> << [name |-> "__VIEWSTATE", value |-> ViewState(s)],
                   [name |-> ReportButton, value |-> "REPORT"] >>,
     selects |-> [i \in {id_map[k] : k \in Steps} |->
                    LET k == CHOOSE k \in Steps : id_map[k] = i
                    IN  [name |-> ServerName[k], options |-> ServerOptions(k),
                         selected |-> 0]]]

\* A 200 page without the form (no __VIEWSTATE, no selects).
ExpiredPage == [st |-> 200, inputs |-> <<>>, selects |-> EmptyMap]

\* The body of a 404 answer (a 5xx answer is retried by the session, and raises).
ErrorPage == [st |-> 404, inputs |-> <<>>, selects |-> EmptyMap]

\* ------------------------------------------------- PostbackFormCodec
\* A variant of FormOfInputs that skips an <input> without a value attribute.
RECURSIVE FormOfValuedInputs(_)
FormOfValuedInputs(inputs) ==
    IF inputs = <<>> THEN EmptyMap
    ELSE LET n == Len(inputs)
             rest == FormOfValuedInputs(SubSeq(inputs, 1, n - 1))
             inp == inputs[n]
         IN  IF inp.name \in {NoAttr, ""} \/ inp.value = NoAttr THEN rest
             ELSE Put(rest, inp.name, inp.value)

\* get_form_data: one entry per <input> with a (non-empty) name, the value
\* defaulting to ''; a later input of the same name overwrites.
RECURSIVE FormOfInputs(_)
FormOfInputs(inputs) ==
    IF inputs = <<>> THEN EmptyMap
    ELSE LET n == Len(inputs)
             rest == FormOfInputs(SubSeq(inputs, 1, n - 1))
             inp == inputs[n]
         IN  IF inp.name \in {NoAttr, ""} THEN rest
             ELSE Put(rest, inp.name,
                      IF inp.value = NoAttr THEN "" ELSE inp.value)

get_form_data(soup) ==
    IF soup.st = 0 THEN EmptyMap ELSE FormOfInputs(soup.inputs)

\* soup.find('input', {'name': '__VIEWSTATE'})
HasViewState(soup) ==
    \E i \in 1..Len(soup.inputs) : soup.inputs[i].name = "__VIEWSTATE"

\* "ddl_acad_year" in resp.text: the text of the page names the year select.
HasMarker(soup) ==
    id_map["Year"] \in DOMAIN soup.selects

\* A variant of KeepOption that lets labels starting with "Select" through.
KeepSelectLabels(opt) ==
    /\ opt[1] \notin {"", NoAttr}
    /\ opt[1] # "0"
    /\ ~Contains(opt[2], ChooseLabel)

\* The cleaning predicate of extract_options (gui_std.py:517).
KeepOption(opt) ==
    /\ opt[1] \notin {"", NoAttr}
    /\ opt[1] # "0"
    /\ ~Contains(opt[2], ChooseLabel)
    /\ ~StartsWith(opt[2], SelectWord)

\* (opt.get('value', ''), opt.text.strip()) of each <option>.
OptionPairs(options) ==
    [i \in 1..Len(options) |->
        << IF options[i][1] = NoAttr THEN "" ELSE options[i][1],
           Strip(options[i][2]) >>]

extract_options(soup, element_id) ==
    IF soup.st = 0 \/ element_id \notin DOMAIN soup.selects THEN <<>>
    ELSE SelectSeq(OptionPairs(soup.selects[element_id].options), KeepOption)

\* The loop over self.selections of make_post and fetch_report_thread:
\* each chosen value is written to the field of its <select>, when the
\* current page has that <select> and it has a name.
RECURSIVE ApplySelections(_, _, _, _)
ApplySelections(form, soup, sel, keys) ==
    IF keys = {} THEN form
    ELSE LET k == CHOOSE k \in keys : TRUE
             f2 == IF /\ id_map[k] \in DOMAIN soup.selects
                      /\ soup.selects[id_map[k]].name \notin {NoAttr, ""}
                   THEN Put(form, soup.selects[id_map[k]].name, sel[k])
                   ELSE form
         IN  ApplySelections(f2, soup, sel, keys \ {k})

\* A variant of ApplyUpdates that writes the value of an element the page
\* lacks under the element id.
RECURSIVE ApplyUpdatesBlind(_, _, _, _)
ApplyUpdatesBlind(form, soup, updates, ids) ==
    IF ids = {} THEN form
    ELSE LET i == CHOOSE i \in ids : TRUE
             f2 == IF i \in DOMAIN soup.selects
                   THEN Put(form, soup.selects[i].name, updates[i])
                   ELSE Put(form, i, updates[i])
         IN  ApplyUpdatesBlind(f2, soup, updates, ids \ {i})

\* The loop over updates of make_post: element id -> value.
RECURSIVE ApplyUpdates(_, _, _, _)
ApplyUpdates(form, soup, updates, ids) ==
    IF ids = {} THEN form
    ELSE LET i == CHOOSE i \in ids : TRUE
             f2 == IF i \in DOMAIN soup.selects
                   THEN Put(form, soup.selects[i].name, updates[i])
                   ELSE form
         IN  ApplyUpdates(f2, soup, updates, ids \ {i})

\* A variant of EventTargetName that gives the id of the element.
EventTargetId(soup, event_target) ==
    IF event_target \in DOMAIN soup.selects THEN event_target ELSE ""

\* target_elem.get('name', '') if target_elem else ''
EventTargetName(soup, event_target) ==
    IF event_target \in DOMAIN soup.selects
    THEN (IF soup.selects[event_target].name = NoAttr THEN ""
          ELSE soup.selects[event_target].name)
    ELSE ""

\* The form data make_post sends (gui_std.py:550-568).
PostbackForm(soup, sel, updates, event_target) ==
    LET f1 == get_form_data(soup)
        f2 == ApplySelections(f1, soup, sel, DOMAIN sel)
        f3 == ApplyUpdates(f2, soup, updates, DOMAIN updates)
        f4 == Put(f3, "__EVENTTARGET", EventTargetName(soup, event_target))
    IN  Restrict(f4, (DOMAIN f4) \ {ReportButton})

\* The form data fetch_report_thread sends (gui_std.py:758-767).
ReportForm(soup, sel) ==
    LET f1 == get_form_data(soup)
        f2 == ApplySelections(f1, soup, sel, DOMAIN sel)
    IN  Put(f2, ReportButton, "REPORT")

\* A variant of LoadOptions that leaves the Phase list unfiltered.
LoadOptionsUnfiltered(soup, step_name) ==
    LET opts == extract_options(soup, id_map[step_name])
    IN  IF step_name = "Year" THEN Take(opts, 4) ELSE opts

\* The option list load_step extracts for a step (gui_std.py:591-617).
LoadOptions(soup, step_name) ==
    LET opts == extract_options(soup, id_map[step_name])
    IN  CASE step_name = "Year" -> Take(opts, 4)
          [] step_name = "Phase" ->
                SelectSeq(opts, LAMBDA o : Contains(o[2], LevelMarker))
          [] OTHER -> opts

\* A variant of AutoIndex that selects entry 0 at every step.
AutoIndexAll(step_name) ==
    0

\* auto_select_index of load_step: 0 for Faculty and Door, None (-1) otherwise.
AutoIndex(step_name) ==
    IF step_name \in {"Faculty", "Door"} THEN 0 ELSE -1

\* -------------------------------------------------------- ReportParser
\* Cell texts are sequences of symbols; NBSP is the non-breaking space.
\* cell.get_text(strip=True) of a cell holding one text node.
GetText(cell) == Strip(cell)

\* .replace('\xa0', '').strip()
CleanText(txt) == Strip(SelectSeq(txt, LAMBDA c : c # NBSP))

DecimalDigits == {"0", "1", "2", "3", "4", "5", "6", "7", "8", "9"}

\* str.isdigit() also accepts digits int() refuses, such as superscript two.
OtherDigits == {"sup2"}

IsDigit(txt) ==
    /\ txt # <<>>
    /\ \A i \in 1..Len(txt) : txt[i] \in DecimalDigits \cup OtherDigits

DigitValue(c) ==
    CASE c = "0" -> 0 [] c = "1" -> 1 [] c = "2" -> 2 [] c = "3" -> 3
      [] c = "4" -> 4 [] c = "5" -> 5 [] c = "6" -> 6 [] c = "7" -> 7
      [] c = "8" -> 8 [] OTHER -> 9

\* int(s_txt) raises ValueError on a digit that is not a decimal digit.
IntRaises(txt) == \E i \in 1..Len(txt) : txt[i] \notin DecimalDigits

RECURSIVE IntOf(_)
IntOf(txt) ==
    IF txt = <<>> THEN 0
    ELSE 10 * IntOf(SubSeq(txt, 1, Len(txt) - 1)) + DigitValue(txt[Len(txt)])

\* The header label of the student-name column.
NameHeader == <<"NAMEHDR">>

\* cells[-k]
FromEnd(cells, k) == cells[Len(cells) + 1 - k]

\* A variant of DropLast6 that drops one cell too few.
DropLast5(cells) ==
    IF Len(cells) <= 5 THEN <<>> ELSE SubSeq(cells, 1, Len(cells) - 5)

\* cells[:-6]
DropLast6(cells) ==
    IF Len(cells) <= 6 THEN <<>> ELSE SubSeq(cells, 1, Len(cells) - 6)

\* A variant of RowQualifies that lets rows of 5 cells and more through.
RowQualifiesFive(cells) ==
    /\ Len(cells) >= 5
    /\ IsDigit(GetText(FromEnd(cells, 1)))

\* A row of the page qualifies: at least 8 cells, the last one all digits.
RowQualifies(cells) ==
    /\ Len(cells) >= 8
    /\ IsDigit(GetText(FromEnd(cells, 1)))

\* A variant of NameAccepted that refuses only the header label itself.
NameAcceptedExact(name) == name # <<>> /\ name # NameHeader

\* name and "..." not in name (gui_std.py:880)
NameAccepted(name) == name # <<>> /\ ~Contains(name, NameHeader)

\* The body of the row loop of parse_results (gui_std.py:867-888): the
\* records one row contributes (none or one).
RowRecords(cells) ==
    IF ~RowQualifies(cells) THEN <<>>
    ELSE IF IntRaises(GetText(FromEnd(cells, 1))) THEN <<>>
    ELSE LET name == CleanText(GetText(FromEnd(cells, 3)))
         IN  IF ~NameAccepted(name) THEN <<>>
             ELSE << [id |-> IntOf(GetText(FromEnd(cells, 1))),
                      name |-> name,
                      seat |-> CleanText(GetText(FromEnd(cells, 2))),
                      grades |-> Reverse([i \in 1..Len(DropLast6(cells)) |->
                                    GetText(DropLast6(cells)[i])])] >>

\* The body of the row loop of both extract_names_and_code
\* (std_list.py:42-58, list_students.py:92-118).
RowNames(cells) ==
    IF ~RowQualifies(cells) THEN <<>>
    ELSE IF IntRaises(GetText(FromEnd(cells, 1))) THEN <<>>
    ELSE LET clean_name == CleanText(GetText(FromEnd(cells, 3)))
         IN  IF clean_name = <<>> \/ Contains(clean_name, NameHeader)
             THEN <<>>
             ELSE << [id |-> IntOf(GetText(FromEnd(cells, 1))),
                      name |-> clean_name] >>

\* table.find_all('tr') if table else soup.find_all('tr'): a report page is
\* [table: whether the results table is there, rows: every <tr> of the page
\* in document order, each with `in` (inside that table) and its <td> texts].
ScannedRows(page) ==
    IF page.table THEN SelectSeq(page.rows, LAMBDA r : r.in) ELSE page.rows

\* soup.find_all('tr') of list_students.py:89.
AllRows(page) == page.rows

\* students of parse_results before the sort (gui_std.py:866-888).
RECURSIVE CollectRecords(_)
CollectRecords(rows) ==
    IF rows = <<>> THEN <<>>
    ELSE RowRecords(rows[1].cells) \o CollectRecords(Tail(rows))

\* students_data of extract_names_and_code before the sort.
RECURSIVE CollectNames(_)
CollectNames(rows) ==
    IF rows = <<>> THEN <<>>
    ELSE RowNames(rows[1].cells) \o CollectNames(Tail(rows))

\* list.sort(key=lambda x: x['id']): stable, ascending.
RECURSIVE InsertById(_, _)
InsertById(sorted, x) ==
    IF sorted = <<>> THEN <<x>>
    ELSE IF sorted[Len(sorted)].id <= x.id THEN Append(sorted, x)
    ELSE Append(InsertById(SubSeq(sorted, 1, Len(sorted) - 1), x),
                sorted[Len(sorted)])

\* A variant of SortById that leaves the list in page order.
UnsortedById(s) ==
    s

RECURSIVE SortById(_)
SortById(s) ==
    IF s = <<>> THEN <<>>
    ELSE InsertById(SortById(SubSeq(s, 1, Len(s) - 1)), s[Len(s)])

\* A variant of DedupByName that keeps the last record of each name.
RECURSIVE DedupKeepLast(_)
DedupKeepLast(s) ==
    IF s = <<>> THEN <<>>
    ELSE LET kept == DedupKeepLast(Tail(s))
         IN  IF \E i \in 1..Len(kept) : kept[i].name = s[1].name THEN kept
             ELSE <<s[1]>> \o kept

\* The de-duplication loop: the first record of each name is kept.
RECURSIVE DedupByName(_)
DedupByName(s) ==
    IF s = <<>> THEN <<>>
    ELSE LET kept == DedupByName(SubSeq(s, 1, Len(s) - 1))
             x == s[Len(s)]
         IN  IF \E i \in 1..Len(kept) : kept[i].name = x.name THEN kept
             ELSE Append(kept, x)

NamesOf(s) == [i \in 1..Len(s) |-> s[i].name]

\* A variant of DedupWarnings that logs every dropped record.
RECURSIVE DedupWarningsAll(_)
DedupWarningsAll(s) ==
    IF s = <<>> THEN <<>>
    ELSE LET before == SubSeq(s, 1, Len(s) - 1)
             kept == DedupByName(before)
             x == s[Len(s)]
         IN  IF \E i \in 1..Len(kept) : kept[i].name = x.name
             THEN Append(DedupWarningsAll(before), x.name)
             ELSE DedupWarningsAll(before)

\* The names the de-duplication loop logs a "Duplicate removed" warning
\* for, in order (gui_std.py:897-907): seen_map holds the kept record of
\* each name, and a dropped record is logged when its id differs from it.
RECURSIVE DedupWarnings(_)
DedupWarnings(s) ==
    IF s = <<>> THEN <<>>
    ELSE LET before == SubSeq(s, 1, Len(s) - 1)
             kept == DedupByName(before)
             x == s[Len(s)]
         IN  IF \E i \in 1..Len(kept) :
                    kept[i].name = x.name /\ kept[i].id # x.id
             THEN Append(DedupWarnings(before), x.name)
             ELSE DedupWarnings(before)

\* The warnings of one run of parse_results (gui_std.py:890-907).
ParseWarnings(page) ==
    DedupWarnings(SortById(CollectRecords(ScannedRows(page))))

\* final_students of parse_results (gui_std.py:862-912).
ParseStudents(page) ==
    DedupByName(SortById(CollectRecords(ScannedRows(page))))

\* final_names of std_list.extract_names_and_code (std_list.py:32-72).
StdListNames(page) ==
    NamesOf(DedupByName(SortById(CollectNames(ScannedRows(page)))))

\* final_names of list_students.extract_names_and_code
\* (list_students.py:85-135).
ListStudentsNames(page) ==
    NamesOf(DedupByName(SortById(CollectNames(AllRows(page)))))

\* ---- the course code (gui_std.py:856-858, std_list.py:23-28)
\* The page text is a sequence of symbols; the label is one of them.
CodeLabel == "CODELABEL"

\* [A-Za-z0-9]
AlnumChars == {"A", "b", "1"}

\* The fallback code.
StudentList == <<"Student_List">>

\* The pattern ([A-Za-z0-9]+)\s*<label> matches at position i with a group
\* of k characters followed by w white-space characters.
MatchesAt(txt, i, k, w) ==
    /\ k >= 1
    /\ i + k + w <= Len(txt)
    /\ \A j \in i..(i + k - 1) : txt[j] \in AlnumChars
    /\ \A j \in (i + k)..(i + k + w - 1) : IsSpace(txt[j])
    /\ txt[i + k + w] = CodeLabel

\* A variant of CourseCode that takes the group of the last match.
LastCourseCode(txt) ==
    LET starts == {i \in 1..Len(txt) :
                     \E k, w \in 0..Len(txt) : MatchesAt(txt, i, k, w)}
    IN  IF starts = {} THEN StudentList
        ELSE LET i == CHOOSE x \in starts : \A y \in starts : y <= x
                 k == CHOOSE x \in 1..Len(txt) :
                        /\ \E w \in 0..Len(txt) : MatchesAt(txt, i, x, w)
                        /\ \A y \in 1..Len(txt) :
                              (\E w \in 0..Len(txt) : MatchesAt(txt, i, y, w))
                                 => y <= x
             IN  SubSeq(txt, i, i + k - 1)

\* re.search(...).group(1), else "Student_List": the leftmost match, its
\* group as long as it can be.
CourseCode(txt) ==
    LET starts == {i \in 1..Len(txt) :
                     \E k, w \in 0..Len(txt) : MatchesAt(txt, i, k, w)}
    IN  IF starts = {} THEN StudentList
        ELSE LET i == CHOOSE x \in starts : \A y \in starts : x <= y
                 k == CHOOSE x \in 1..Len(txt) :
                        /\ \E w \in 0..Len(txt) : MatchesAt(txt, i, x, w)
                        /\ \A y \in 1..Len(txt) :
                              (\E w \in 0..Len(txt) : MatchesAt(txt, i, y, w))
                                 => y <= x
             IN  SubSeq(txt, i, i + k - 1)

\* ---- the grade-column headers (gui_std.py:834-853)
IndexDigits == <<"0", "1", "2", "3", "4", "5", "6", "7", "8", "9">>

\* f"{text}_{i}"
Suffixed(text, i) == text \o <<"_", IndexDigits[i + 1]>>

\* cell.get_text(separator=" ", strip=True) of a cell holding one text node.
HeaderText(cell) == Strip(cell)

\* soup.find('tr', align='center'): the first row of the page so marked
\* (its index in page.rows, 0 when there is none).
HeaderRowIndex(page) ==
    LET marked == {i \in 1..Len(page.rows) : page.rows[i].center}
    IN  IF marked = {} THEN 0
        ELSE CHOOSE i \in marked : \A j \in marked : i <= j

\* A variant of ExtractedHeaders that takes the cell texts as they are.
PlainHeaders(target) ==
    [i \in 1..Len(target) |-> HeaderText(target[i])]

\* The loop over target_cells: a text already extracted gets the suffix _i.
RECURSIVE ExtractedHeaders(_)
ExtractedHeaders(target) ==
    IF target = <<>> THEN <<>>
    ELSE LET n == Len(target)
             before == ExtractedHeaders(SubSeq(target, 1, n - 1))
             text == HeaderText(target[n])
         IN  Append(before,
                    IF \E k \in 1..Len(before) : before[k] = text
                    THEN Suffixed(text, n - 1) ELSE text)

\* A variant of extract_table_headers that leaves the headers in source
\* order.
UnreversedHeaders(page) ==
    IF HeaderRowIndex(page) = 0 THEN <<>>
    ELSE LET cells == page.rows[HeaderRowIndex(page)].cells
         IN  IF Len(cells) <= 6 THEN <<>>
             ELSE ExtractedHeaders(DropLast6(cells))

extract_table_headers(page) ==
    IF HeaderRowIndex(page) = 0 THEN <<>>
    ELSE LET cells == page.rows[HeaderRowIndex(page)].cells
         IN  IF Len(cells) <= 6 THEN <<>>
             ELSE Reverse(ExtractedHeaders(DropLast6(cells)))

\* parse_results: (final_students, code, headers_list)
parse_results(page) ==
    [gui |-> ParseStudents(page),
     code |-> CourseCode(page.text),
     headers |-> extract_table_headers(page)]

\* Report pages the parsers are run on: up to MaxRows rows drawn from RowPool.
MkCells(n, id, seat, name) ==
    [i \in 1..n |->
        IF i = n THEN id
        ELSE IF i = n - 1 THEN seat
        ELSE IF i = n - 2 THEN name
        ELSE IF i <= n - 6 THEN << <<"7">>, <<"8">>, <<"9">> >>[i]
        ELSE <<"-">>]

RowPool ==
    { MkCells(8, <<"1">>, <<"s", "1">>, <<"A">>),
      MkCells(8, <<"2">>, <<"s", "2">>, <<"A">>),
      MkCells(8, <<"2">>, <<NBSP, "s", "3">>, <<"B">>),
      MkCells(9, <<"1">>, <<"s", "4">>, <<"B", " ">>),
      MkCells(8, <<"1", "0">>, <<"s", "5">>, <<NBSP, "A">>),
      MkCells(8, <<"x">>, <<"s", "6">>, <<"C">>),
      MkCells(5, <<"3">>, <<"s", "7">>, <<"C">>),
      MkCells(8, <<"3">>, <<"s", "8">>, <<NBSP>>),
      MkCells(8, <<"4">>, <<"s", "9">>, <<"NAMEHDR">>),
      MkCells(8, <<"sup2">>, <<"s", "0">>, <<"D">>),
      MkCells(8, <<"1">>, <<"s", "a">>, <<"A">>),
      MkCells(8, <<"5">>, <<"s", "b">>, <<"x", "NAMEHDR">>) }

\* The pages of n rows, with the results table (tb) or without it: only a
\* page with the table has rows inside it.
ReportPages(n, tb) ==
    [table : {tb},
     rows : [1..n -> { r \in [in : BOOLEAN, cells : RowPool] : r.in => tb }]]

EmptyReport == [table |-> FALSE, rows |-> <<>>]

\* Pages with a header row: the header labels of the grade columns, then the
\* six fixed columns; data rows carry a distinct text in every grade column.
HeaderLabels == { <<"g">>, <<"h">> }

\* A label that reads like a label with an index suffix; the first cell of a
\* header row may hold it.
SuffixLikeLabel == <<"g", "_", "2">>

HeaderLabelRows(k) ==
    { l \in [1..k -> HeaderLabels \cup {SuffixLikeLabel}] :
        \A i \in 2..k : l[i] \in HeaderLabels }

HeaderCells(n, labels) ==
    [i \in 1..n |-> IF i <= n - 6 THEN labels[i] ELSE <<"f">>]

DataCells(n, id, seat, name) ==
    [i \in 1..n |->
        IF i = n THEN id
        ELSE IF i = n - 1 THEN seat
        ELSE IF i = n - 2 THEN name
        ELSE IF i <= n - 6 THEN <<"c", IndexDigits[i + 1]>>
        ELSE <<"-">>]

HeaderRowPool ==
    UNION { { [in |-> FALSE, center |-> TRUE, cells |-> HeaderCells(n, l)] :
                l \in HeaderLabelRows(IF n > 6 THEN n - 6 ELSE 0) } :
            n \in 0..MaxHeaderCells }
    \cup
    UNION { { [in |-> FALSE, center |-> FALSE,
               cells |-> DataCells(n, <<"1", "2">>, <<NBSP, "s", "1">>,
                                   <<"A", NBSP>>)],
              [in |-> FALSE, center |-> FALSE,
               cells |-> DataCells(n, <<"3">>, <<"s", "2">>, <<"B">>)] } :
            n \in 8..MaxHeaderCells }

HeaderPages(n) ==
    [text : {<<>>}, table : {FALSE}, rows : [1..n -> HeaderRowPool]]

\* Pages with a text and no rows.
TextChars == {"A", "1", " ", "-", CodeLabel}

TextPages(n) ==
    [text : [1..n -> TextChars], table : {FALSE}, rows : {<<>>}]

NothingParsed == [gui |-> <<>>, std |-> <<>>, ls |-> <<>>]

\* ------------------------------------------------------------- state
VARIABLES
    session,          \* identity of self.session (a fresh one per reset_session)
    current_profile,  \* self.current_profile
    stop_event,       \* self.stop_event.is_set()
    is_batch_running, \* self.is_batch_running
    current_soup,     \* self.current_soup
    selections,       \* self.selections: step -> chosen value
    dropdown_map,     \* self.dropdown_map: step -> option list
    combos,           \* self.combos: step -> widget state, current index, values
    btn_fetch,        \* state of DOWNLOAD CURRENT
    btn_batch,        \* state of DOWNLOAD ALL
    btn_cancel,       \* state of STOP
    threads,          \* the live worker threads, in the order they started
    afterq,           \* callbacks scheduled with root.after, not yet run
    gestures,         \* user gestures made so far while work was pending
    user,             \* which gestures the user makes while work is pending
    parse_in,         \* the page handed to the functions that are run alone
    parse_done,       \* the parser variants that have run on it
    parse_out,        \* what each of them returned
    cli_pc,           \* std_list.main: where it stands ("off": not run)
    cli_step,         \* std_list.main: the numbered step it is at (1..9)
    cli_soup,         \* std_list.main: current_soup (NoPage: None)
    cli_updates,      \* std_list.main: the values the next postback updates
    cli_form,         \* std_list.main: the form data of its last request
    cli_out           \* std_list.main: how it ended, and the names it found

gui_vars == <<session, current_profile, stop_event, is_batch_running,
              current_soup, selections, dropdown_map, combos, btn_fetch,
              btn_batch, btn_cancel, threads, afterq, gestures, user>>

\* A thread slot: kind and position, the arguments it was started with, the
\* request it has in flight (up: the session it was sent on, 0 when none;
\* form: its form data), its local soup and the result of its make_post.
parse_vars == <<parse_in, parse_done, parse_out>>

cli_vars == <<cli_pc, cli_step, cli_soup, cli_updates, cli_form, cli_out>>

IdleThread ==
    [kind |-> "idle", pc |-> "idle", key |-> "", val |-> "",
     up |-> 0, form |-> EmptyMap, soup |-> NoPage, ok |-> FALSE,
     subjects |-> <<>>, i |-> 0]

Slots == 1..Len(threads)

HasFreeSlot == Len(threads) < MaxThreads

\* threading.Thread(target=...).start() for each of the four targets; a step
\* thread (process_next_step, lines 657-667) posts unless its step is Year or
\* Faculty.
StepPosts(key) == key \notin {"Year", "Faculty"}

NewThread(kind, key, val, subjects) ==
    [IdleThread EXCEPT
        !.kind = kind,
        !.pc = CASE kind = "login" -> "l_get"
                 [] kind = "fetch" -> "fr_build"
                 [] kind = "batch" -> "b_check"
                 [] OTHER -> IF StepPosts(key) THEN "mp_build" ELSE "s_load",
        !.key = key, !.val = val, !.subjects = subjects,
        !.i = IF kind = "batch" THEN 1 ELSE 0]

Spawn(ths, kind, key, val, subjects) ==
    Append(ths, NewThread(kind, key, val, subjects))

\* A gesture: counted when it is made while work is pending.
AtRest == threads = <<>> /\ afterq = <<>>

\* The gestures a "batch" user makes while work is pending, in their order:
\* the SubjSem combo box or STOP, then DOWNLOAD ALL twice, then the account
\* switch.
BatchKinds(n) ==
    IF n = 1 THEN {"SubjSem", "cancel"}
    ELSE IF n \in {2, 3} THEN {"batch"}
    ELSE {"toggle"}

\* A user gesture of some kind (the step of a combo box, or a button):
\* always possible when the application is at rest; while work is pending,
\* "any" user makes up to MaxGestures gestures of any kind, a "batch" user up
\* to MaxBatchGestures gestures of the kinds of BatchKinds.
Impatient(kind) ==
    IF user = "any" THEN gestures < MaxGestures
    ELSE /\ gestures < MaxBatchGestures
         /\ kind \in BatchKinds(gestures + 1)

Gesture(kind) ==
    /\ AtRest \/ Impatient(kind)
    /\ gestures' = IF AtRest THEN gestures ELSE gestures + 1
    /\ user' = user

Callback(fn, key, options, auto) ==
    [fn |-> fn, key |-> key, options |-> options, auto |-> auto]

DisabledCombo == [state |-> "disabled", cur |-> -1, n |-> 0]

GuiInit ==
    /\ session = 1
    /\ current_profile = "Science"
    /\ stop_event = FALSE
    /\ is_batch_running = FALSE
    /\ current_soup = NoPage
    /\ selections = EmptyMap
    /\ dropdown_map = EmptyMap
    /\ combos = [k \in Steps |-> DisabledCombo]
    /\ btn_fetch = "disabled"
    /\ btn_batch = "disabled"
    /\ btn_cancel = "disabled"
    /\ threads = <<NewThread("login", "", "", <<>>)>>
    /\ afterq = <<>>
    /\ gestures = 0

\* The report parsers have not been handed a page.
ParseIdle ==
    /\ parse_in = EmptyReport
    /\ parse_done = {}
    /\ parse_out = NothingParsed

\* std_list.main has its session and nothing else (lines 247-251).
CliStart(pc) ==
    /\ cli_pc = pc
    /\ cli_step = 0
    /\ cli_soup = NoPage
    /\ cli_updates = EmptyMap
    /\ cli_form = EmptyMap
    /\ cli_out = [how |-> "", names |-> <<>>]

Init ==
    /\ GuiInit
    /\ user = "any"
    /\ ParseIdle
    /\ CliStart("off")

\* ------------------------------------------------ main-thread handlers
\* A variant of SelectAndTruncate that stores the value and keeps later steps.
SelectKeepLater(sel, key, val) ==
    Put(sel, key, val)

\* on_selection, lines 630-639: store the value, drop every later step.
SelectAndTruncate(sel, key, val) ==
    Put(Restrict(sel, Steps \ NextSteps(key)), key, val)

\* on_selection, lines 640-643: clear and disable the combos of later steps.
ClearLaterCombos(cbs, key) ==
    [k \in Steps |-> IF k \in NextSteps(key) THEN DisabledCombo ELSE cbs[k]]

\* on_selection goes past its early returns: no batch running, an entry is
\* selected in the combo (and the option cache has it: otherwise the handler
\* raises and Tk drops the event).
SelectionAccepted(key, cbs) ==
    /\ ~is_batch_running
    /\ cbs[key].cur # -1
    /\ key \in DOMAIN dropdown_map
    /\ cbs[key].cur < Len(dropdown_map[key])

\* on_selection(key), run with the combos as cbs.
on_selection(key, cbs) ==
    IF SelectionAccepted(key, cbs)
    THEN LET val == dropdown_map[key][cbs[key].cur + 1][1]
         IN  /\ HasFreeSlot
             /\ selections' = SelectAndTruncate(selections, key, val)
             /\ combos' = ClearLaterCombos(cbs, key)
             /\ threads' = Spawn(threads, "step", key, val, <<>>)
             /\ IF NextSteps(key) # {}
                THEN btn_fetch' = "disabled" /\ btn_batch' = "disabled"
                ELSE UNCHANGED <<btn_fetch, btn_batch>>
             /\ UNCHANGED <<session, current_profile, stop_event,
                            is_batch_running, current_soup, dropdown_map,
                            btn_cancel>>
    ELSE /\ combos' = cbs
         /\ UNCHANGED <<session, current_profile, stop_event,
                        is_batch_running, current_soup, selections,
                        dropdown_map, btn_fetch, btn_batch, btn_cancel,
                        threads>>

\* The user picks entry idx of an enabled combo: <<ComboboxSelected>>.
UserSelect(key, idx) ==
    /\ Gesture(key)
    /\ combos[key].state = "readonly"
    /\ idx \in 0..(combos[key].n - 1)
    /\ UNCHANGED afterq
    /\ on_selection(key, [combos EXCEPT ![key].cur = idx])
    /\ UNCHANGED <<parse_vars, cli_vars>>

\* update_combo(key, options, auto_select_index), run with the queue as q.
update_combo(key, options, auto, q) ==
    LET autoOk == auto # -1 /\ 0 <= auto /\ auto < Len(options)
    IN  /\ dropdown_map' = Put(dropdown_map, key, options)
        /\ combos' = [combos EXCEPT ![key] =
                        IF options # <<>>
                        THEN [state |-> "readonly",
                              cur |-> IF autoOk THEN auto ELSE -1,
                              n |-> Len(options)]
                        ELSE DisabledCombo]
        /\ afterq' = IF options # <<>> /\ autoOk
                     THEN Append(q, Callback("on_selection", key, <<>>, -1))
                     ELSE q
        /\ IF options # <<>> /\ key = "Subject"
           THEN btn_fetch' = "normal" /\ btn_batch' = "normal"
           ELSE UNCHANGED <<btn_fetch, btn_batch>>
        /\ UNCHANGED <<session, current_profile, stop_event, is_batch_running,
                       current_soup, selections, btn_cancel, threads>>

\* initiate_sequence, run with the queue as q.
initiate_sequence(q) ==
    LET year_opts == Take(extract_options(current_soup, id_map["Year"]), 4)
    IN  IF year_opts = <<>>
        THEN /\ afterq' = q
             /\ UNCHANGED <<session, current_profile, stop_event,
                            is_batch_running, current_soup, selections,
                            dropdown_map, combos, btn_fetch, btn_batch,
                            btn_cancel, threads>>
        ELSE update_combo("Year", year_opts, 0, q)

\* finish_batch_ui, run with the queue as q.
finish_batch_ui(q) ==
    /\ btn_batch' = "normal"
    /\ btn_fetch' = "normal"
    /\ btn_cancel' = "disabled"
    /\ afterq' = q
    /\ UNCHANGED <<session, current_profile, stop_event, is_batch_running,
                   current_soup, selections, dropdown_map, combos, threads>>

\* The Tk main loop runs one scheduled callback.
RunAfter(i) ==
    /\ i \in 1..Len(afterq)
    /\ UNCHANGED <<gestures, user>>
    /\ LET cb == afterq[i]
           q == RemoveAt(afterq, i)
       IN  CASE cb.fn = "initiate_sequence" -> initiate_sequence(q)
             [] cb.fn = "update_combo" ->
                    update_combo(cb.key, cb.options, cb.auto, q)
             [] cb.fn = "on_selection" ->
                    afterq' = q /\ on_selection(cb.key, combos)
             [] OTHER -> finish_batch_ui(q)
    /\ UNCHANGED <<parse_vars, cli_vars>>

\* A variant of toggle_account that keeps the option cache.
toggle_account_keeping_options ==
    /\ Gesture("toggle")
    /\ session < MaxSessions
    /\ HasFreeSlot
    /\ ~is_batch_running
    /\ current_profile' =
            IF current_profile = "Science" THEN "Education" ELSE "Science"
    /\ session' = session + 1
    /\ selections' = EmptyMap
    /\ combos' = [k \in Steps |-> DisabledCombo]
    /\ btn_fetch' = "disabled"
    /\ btn_batch' = "disabled"
    /\ threads' = Spawn(threads, "login", "", "", <<>>)
    /\ UNCHANGED <<dropdown_map, stop_event, is_batch_running, current_soup,
                   btn_cancel, afterq>>
    /\ UNCHANGED <<parse_vars, cli_vars>>

\* toggle_account (the profile button).
toggle_account ==
    /\ Gesture("toggle")
    /\ session < MaxSessions
    /\ HasFreeSlot
    /\ ~is_batch_running
    /\ current_profile' =
            IF current_profile = "Science" THEN "Education" ELSE "Science"
    /\ session' = session + 1
    /\ selections' = EmptyMap
    /\ dropdown_map' = EmptyMap
    /\ combos' = [k \in Steps |-> DisabledCombo]
    /\ btn_fetch' = "disabled"
    /\ btn_batch' = "disabled"
    /\ threads' = Spawn(threads, "login", "", "", <<>>)
    /\ UNCHANGED <<stop_event, is_batch_running, current_soup, btn_cancel,
                   afterq>>
    /\ UNCHANGED <<parse_vars, cli_vars>>

\* toggle_buttons(enable): the three button states it leaves.
toggle_buttons(enable) ==
    /\ IF ~is_batch_running
       THEN /\ btn_fetch' = (IF enable THEN "normal" ELSE "disabled")
            /\ btn_batch' = (IF enable THEN "normal" ELSE "disabled")
       ELSE UNCHANGED <<btn_fetch, btn_batch>>
    /\ btn_cancel' = (IF is_batch_running THEN "normal" ELSE "disabled")

\* start_single_fetch (DOWNLOAD CURRENT).
start_single_fetch ==
    /\ Gesture("fetch")
    /\ HasFreeSlot
    /\ btn_fetch = "normal"
    /\ toggle_buttons(FALSE)
    /\ threads' = Spawn(threads, "fetch", "", "", <<>>)
    /\ UNCHANGED <<session, current_profile, stop_event, is_batch_running,
                   current_soup, selections, dropdown_map, combos, afterq>>
    /\ UNCHANGED <<parse_vars, cli_vars>>

\* A variant of start_batch_process that leaves the stop flag as it finds it.
start_batch_process_keeping_stop ==
    /\ Gesture("batch")
    /\ HasFreeSlot
    /\ btn_batch = "normal"
    /\ Get(dropdown_map, "Subject", <<>>) # <<>>
    /\ is_batch_running' = TRUE
    /\ btn_batch' = "disabled"
    /\ btn_fetch' = "disabled"
    /\ btn_cancel' = "normal"
    /\ threads' = Spawn(threads, "batch", "", "", dropdown_map["Subject"])
    /\ UNCHANGED <<stop_event, session, current_profile, current_soup,
                   selections, dropdown_map, combos, afterq>>
    /\ UNCHANGED <<parse_vars, cli_vars>>

\* confirm_batch_download answered yes, then start_batch_process (DOWNLOAD ALL).
start_batch_process ==
    /\ Gesture("batch")
    /\ HasFreeSlot
    /\ btn_batch = "normal"
    /\ Get(dropdown_map, "Subject", <<>>) # <<>>
    /\ is_batch_running' = TRUE
    /\ stop_event' = FALSE
    /\ btn_batch' = "disabled"
    /\ btn_fetch' = "disabled"
    /\ btn_cancel' = "normal"
    /\ threads' = Spawn(threads, "batch", "", "", dropdown_map["Subject"])
    /\ UNCHANGED <<session, current_profile, current_soup, selections,
                   dropdown_map, combos, afterq>>
    /\ UNCHANGED <<parse_vars, cli_vars>>

\* cancel_batch (STOP).
cancel_batch ==
    /\ Gesture("cancel")
    /\ btn_cancel = "normal"
    /\ IF is_batch_running
       THEN stop_event' = TRUE /\ btn_cancel' = "disabled"
       ELSE UNCHANGED <<stop_event, btn_cancel>>
    /\ UNCHANGED <<session, current_profile, is_batch_running, current_soup,
                   selections, dropdown_map, combos, btn_fetch, btn_batch,
                   threads, afterq>>
    /\ UNCHANGED <<parse_vars, cli_vars>>

\* ------------------------------------------------------ the server side
\* What a call can come back with: a parsed body with its status, or
\* RaisedError when the request raises (timeout, connection reset).
RaisedError == [st |-> -1, inputs |-> <<>>, selects |-> EmptyMap]

\* The report page (its rows are modelled with the report parser below).
ReportPage == [st |-> 200, inputs |-> <<>>, selects |-> EmptyMap]

LoginGetAnswers(s) == {LoginPage(s), ErrorPage, RaisedError}

LoginPostAnswers(s) == {LoginPage(s), ErrorPage, RaisedError}

TargetGetAnswers(s) == {CascadePage(s), LoginPage(s), ErrorPage, RaisedError}

PostbackAnswers(s) == {CascadePage(s), ExpiredPage, ErrorPage, RaisedError}

ReportPostAnswers(s) == {CascadePage(s), ErrorPage, RaisedError}

ReportGetAnswers(s) == {ReportPage, ErrorPage, RaisedError}

\* ------------------------------------------------------ worker threads
Set(t, rec) ==
    threads' = IF rec = IdleThread THEN RemoveAt(threads, t)
               ELSE [threads EXCEPT ![t] = rec]

\* session.get / session.post is entered: the request is in flight on the
\* session self.session names at that moment.
Sent(th, pc) == [th EXCEPT !.up = session, !.pc = pc]

\* perform_login -------------------------------------------------------
\* lines 454-456: creds are read, the GET of the login page is sent.
LoginGetSend(t) ==
    /\ threads[t].pc = "l_get"
    /\ Set(t, Sent([threads[t] EXCEPT !.val = current_profile], "l_get_recv"))
    /\ UNCHANGED <<session, current_profile, stop_event, is_batch_running,
                   current_soup, selections, dropdown_map, combos, btn_fetch,
                   btn_batch, btn_cancel, afterq, gestures, user>>
    /\ UNCHANGED <<parse_vars, cli_vars>>

\* lines 460-464: data of the login POST.
LoginData(soup, profile) ==
    Put(Put(Put(get_form_data(soup), "txt_user_name", profile),
            "txt_pw", profile), "Button1", "LOGIN")

\* lines 456-464: the answer is parsed whatever its status.
LoginGetRecv(t, r) ==
    /\ threads[t].pc = "l_get_recv"
    /\ r \in LoginGetAnswers(threads[t].up)
    /\ IF r = RaisedError
       THEN Set(t, IdleThread)
       ELSE Set(t, [threads[t] EXCEPT !.up = 0, !.pc = "l_post", !.soup = r,
                       !.form = LoginData(r, threads[t].val)])
    /\ UNCHANGED <<session, current_profile, stop_event, is_batch_running,
                   current_soup, selections, dropdown_map, combos, btn_fetch,
                   btn_batch, btn_cancel, afterq, gestures, user>>
    /\ UNCHANGED <<parse_vars, cli_vars>>

\* line 466
LoginPostSend(t) ==
    /\ threads[t].pc = "l_post"
    /\ Set(t, Sent(threads[t], "l_post_recv"))
    /\ UNCHANGED <<session, current_profile, stop_event, is_batch_running,
                   current_soup, selections, dropdown_map, combos, btn_fetch,
                   btn_batch, btn_cancel, afterq, gestures, user>>
    /\ UNCHANGED <<parse_vars, cli_vars>>

\* lines 466-467: the answer of the login POST is dropped.
LoginPostRecv(t, r) ==
    /\ threads[t].pc = "l_post_recv"
    /\ r \in LoginPostAnswers(threads[t].up)
    /\ IF r = RaisedError
       THEN Set(t, IdleThread)
       ELSE Set(t, [threads[t] EXCEPT !.up = 0, !.pc = "l_tgt",
                       !.form = EmptyMap])
    /\ UNCHANGED <<session, current_profile, stop_event, is_batch_running,
                   current_soup, selections, dropdown_map, combos, btn_fetch,
                   btn_batch, btn_cancel, afterq, gestures, user>>
    /\ UNCHANGED <<parse_vars, cli_vars>>

\* line 469
LoginTargetSend(t) ==
    /\ threads[t].pc = "l_tgt"
    /\ Set(t, Sent(threads[t], "l_tgt_recv"))
    /\ UNCHANGED <<session, current_profile, stop_event, is_batch_running,
                   current_soup, selections, dropdown_map, combos, btn_fetch,
                   btn_batch, btn_cancel, afterq, gestures, user>>
    /\ UNCHANGED <<parse_vars, cli_vars>>

\* A variant of LoginStartsCascade that goes on whatever the page holds.
LoginAlwaysStarts(r) == r = r

\* lines 470-479: the page is stored, then the marker decides.
LoginStartsCascade(r) == HasMarker(r)

LoginTargetRecv(t, r) ==
    /\ threads[t].pc = "l_tgt_recv"
    /\ r \in TargetGetAnswers(threads[t].up)
    /\ Set(t, IdleThread)
    /\ IF r = RaisedError
       THEN UNCHANGED <<current_soup, afterq>>
       ELSE /\ current_soup' = r
            /\ afterq' = IF LoginStartsCascade(r)
                         THEN Append(afterq,
                                Callback("initiate_sequence", "", <<>>, -1))
                         ELSE afterq
    /\ UNCHANGED <<session, current_profile, stop_event, is_batch_running,
                   selections, dropdown_map, combos, btn_fetch, btn_batch,
                   btn_cancel, gestures, user>>
    /\ UNCHANGED <<parse_vars, cli_vars>>

\* make_post -----------------------------------------------------------
\* A variant of AfterMakePost in which the Subject step goes on to fetch the
\* report when its postback succeeded.
AfterMakePostFetches(th, ok) ==
    CASE th.kind = "batch" ->
            IF ok THEN [th EXCEPT !.pc = "fr_build", !.ok = ok]
            ELSE [th EXCEPT !.pc = "b_check", !.i = th.i + 1, !.ok = ok]
      [] th.key = "Subject" ->
            IF ok THEN [th EXCEPT !.pc = "fr_build", !.ok = ok]
            ELSE IdleThread
      [] OTHER -> [th EXCEPT !.pc = "s_load", !.ok = ok]

\* Where the caller of make_post goes on with its result.
AfterMakePost(th, ok) ==
    CASE th.kind = "batch" ->
            IF ok THEN [th EXCEPT !.pc = "fr_build", !.ok = ok]
            ELSE [th EXCEPT !.pc = "b_check", !.i = th.i + 1, !.ok = ok]
      [] th.key = "Subject" -> IdleThread
      [] OTHER -> [th EXCEPT !.pc = "s_load", !.ok = ok]

\* line 546: the guard of make_post.
CanPost(soup) == soup.st # 0 /\ HasViewState(soup)

\* lines 546-570: the guard, then the form data; time.sleep(0.5) follows.
\* The thread keeps, as soup, the page it read self.current_soup to be.
MakePostBuild(t) ==
    /\ threads[t].pc = "mp_build"
    /\ LET th == threads[t]
           tid == id_map[th.key]
       IN  IF ~CanPost(current_soup)
           THEN Set(t, AfterMakePost(th, FALSE))
           ELSE Set(t, [th EXCEPT !.pc = "mp_send", !.soup = current_soup,
                          !.form = PostbackForm(current_soup, selections,
                                      [i \in {tid} |-> th.val], tid)])
    /\ UNCHANGED <<session, current_profile, stop_event, is_batch_running,
                   current_soup, selections, dropdown_map, combos, btn_fetch,
                   btn_batch, btn_cancel, afterq, gestures, user>>
    /\ UNCHANGED <<parse_vars, cli_vars>>

\* line 572
MakePostSend(t) ==
    /\ threads[t].pc = "mp_send"
    /\ Set(t, Sent(threads[t], "mp_recv"))
    /\ UNCHANGED <<session, current_profile, stop_event, is_batch_running,
                   current_soup, selections, dropdown_map, combos, btn_fetch,
                   btn_batch, btn_cancel, afterq, gestures, user>>
    /\ UNCHANGED <<parse_vars, cli_vars>>

\* lines 576-585
MakePostRecv(t, r) ==
    /\ threads[t].pc = "mp_recv"
    /\ r \in PostbackAnswers(threads[t].up)
    /\ LET th == [threads[t] EXCEPT !.up = 0, !.form = EmptyMap,
                                    !.soup = NoPage]
       IN  IF r = RaisedError \/ r.st # 200
           THEN Set(t, AfterMakePost(th, FALSE)) /\ UNCHANGED current_soup
           ELSE Set(t, AfterMakePost(th, TRUE)) /\ current_soup' = r
    /\ UNCHANGED <<session, current_profile, stop_event, is_batch_running,
                   selections, dropdown_map, combos, btn_fetch, btn_batch,
                   btn_cancel, afterq, gestures, user>>
    /\ UNCHANGED <<parse_vars, cli_vars>>

\* process_next_step ---------------------------------------------------
\* lines 669-672: the result of make_post is not looked at.
\* load_step(next_step): the options are read off the current page and
\* update_combo is scheduled on the main loop.
StepLoad(t) ==
    /\ threads[t].pc = "s_load"
    /\ LET th == threads[t]
           next_step == seq[SeqIndex(th.key) + 1]
       IN  afterq' = Append(afterq,
                        Callback("update_combo", next_step,
                                 LoadOptions(current_soup, next_step),
                                 AutoIndex(next_step)))
    /\ Set(t, IdleThread)
    /\ UNCHANGED <<session, current_profile, stop_event, is_batch_running,
                   current_soup, selections, dropdown_map, combos, btn_fetch,
                   btn_batch, btn_cancel, gestures, user>>
    /\ UNCHANGED <<parse_vars, cli_vars>>

\* fetch_report_thread ---------------------------------------------------
\* Where fetch_report_thread returns to: the end of the single-fetch thread,
\* or batch_worker's time.sleep(1.0) and its next course.
AfterFetch(th) ==
    IF th.kind = "batch"
    THEN [th EXCEPT !.pc = "b_check", !.i = th.i + 1, !.soup = NoPage]
    ELSE IdleThread

\* lines 758-767: the form data (current_soup.find raises on None when a
\* selection is to be written).
FetchBuild(t) ==
    /\ threads[t].pc = "fr_build"
    /\ IF current_soup.st = 0 /\ DOMAIN selections # {}
       THEN Set(t, [threads[t] EXCEPT !.pc = "fr_finally"])
       ELSE Set(t, [threads[t] EXCEPT !.pc = "fr_send",
                       !.form = ReportForm(current_soup, selections)])
    /\ UNCHANGED <<session, current_profile, stop_event, is_batch_running,
                   current_soup, selections, dropdown_map, combos, btn_fetch,
                   btn_batch, btn_cancel, afterq, gestures, user>>
    /\ UNCHANGED <<parse_vars, cli_vars>>

\* line 769
FetchPostSend(t) ==
    /\ threads[t].pc = "fr_send"
    /\ Set(t, Sent(threads[t], "fr_recv"))
    /\ UNCHANGED <<session, current_profile, stop_event, is_batch_running,
                   current_soup, selections, dropdown_map, combos, btn_fetch,
                   btn_batch, btn_cancel, afterq, gestures, user>>
    /\ UNCHANGED <<parse_vars, cli_vars>>

\* lines 773-776: only a 200 answer replaces current_soup; the thread goes on
\* to the report GET either way.
FetchPostRecv(t, r) ==
    /\ threads[t].pc = "fr_recv"
    /\ r \in ReportPostAnswers(threads[t].up)
    /\ LET th == [threads[t] EXCEPT !.up = 0, !.form = EmptyMap]
       IN  IF r = RaisedError
           THEN Set(t, [th EXCEPT !.pc = "fr_finally"])
           ELSE Set(t, [th EXCEPT !.pc = "fr_get"])
    /\ current_soup' = IF r.st = 200 THEN r ELSE current_soup
    /\ UNCHANGED <<session, current_profile, stop_event, is_batch_running,
                   selections, dropdown_map, combos, btn_fetch, btn_batch,
                   btn_cancel, afterq, gestures, user>>
    /\ UNCHANGED <<parse_vars, cli_vars>>

\* line 778
FetchGetSend(t) ==
    /\ threads[t].pc = "fr_get"
    /\ Set(t, Sent(threads[t], "fr_get_recv"))
    /\ UNCHANGED <<session, current_profile, stop_event, is_batch_running,
                   current_soup, selections, dropdown_map, combos, btn_fetch,
                   btn_batch, btn_cancel, afterq, gestures, user>>
    /\ UNCHANGED <<parse_vars, cli_vars>>

\* lines 780-782: the answer is parsed and handed to parse_results whatever
\* its status.
FetchGetRecv(t, r) ==
    /\ threads[t].pc = "fr_get_recv"
    /\ r \in ReportGetAnswers(threads[t].up)
    /\ LET th == [threads[t] EXCEPT !.up = 0, !.pc = "fr_finally"]
       IN  IF r = RaisedError THEN Set(t, th)
           ELSE Set(t, [th EXCEPT !.soup = r])
    /\ UNCHANGED <<session, current_profile, stop_event, is_batch_running,
                   current_soup, selections, dropdown_map, combos, btn_fetch,
                   btn_batch, btn_cancel, afterq, gestures, user>>
    /\ UNCHANGED <<parse_vars, cli_vars>>

\* lines 829-832: the finally clause.
FetchFinally(t) ==
    /\ threads[t].pc = "fr_finally"
    /\ Set(t, AfterFetch(threads[t]))
    /\ IF ~is_batch_running
       THEN toggle_buttons(TRUE)
       ELSE UNCHANGED <<btn_fetch, btn_batch, btn_cancel>>
    /\ UNCHANGED <<session, current_profile, stop_event, is_batch_running,
                   current_soup, selections, dropdown_map, combos, afterq,
                   gestures, user>>
    /\ UNCHANGED <<parse_vars, cli_vars>>

\* batch_worker --------------------------------------------------------
\* A variant of BatchContinues that does not look at the stop flag.
BatchIgnoresStop(th) == th.i <= Len(th.subjects)

\* line 728: the loop goes on to its next course.
BatchContinues(th) == th.i <= Len(th.subjects) /\ ~stop_event

\* lines 727-734: the head of the loop: the stop flag is looked at, then the
\* course is stored in self.selections.
BatchCheck(t) ==
    /\ threads[t].pc = "b_check"
    /\ LET th == threads[t]
       IN  IF BatchContinues(th)
           THEN /\ selections' = Put(selections, "Subject",
                                     th.subjects[th.i][1])
                /\ Set(t, [th EXCEPT !.pc = "mp_build", !.key = "Subject",
                              !.val = th.subjects[th.i][1]])
           ELSE /\ Set(t, [th EXCEPT !.pc = "b_end"])
                /\ UNCHANGED selections
    /\ UNCHANGED <<session, current_profile, stop_event, is_batch_running,
                   current_soup, dropdown_map, combos, btn_fetch, btn_batch,
                   btn_cancel, afterq, gestures, user>>
    /\ UNCHANGED <<parse_vars, cli_vars>>

\* lines 743-745
BatchEnd(t) ==
    /\ threads[t].pc = "b_end"
    /\ is_batch_running' = FALSE
    /\ stop_event' = FALSE
    /\ afterq' = Append(afterq, Callback("finish_batch_ui", "", <<>>, -1))
    /\ Set(t, IdleThread)
    /\ UNCHANGED <<session, current_profile, current_soup, selections,
                   dropdown_map, combos, btn_fetch, btn_batch, btn_cancel,
                   gestures, user>>
    /\ UNCHANGED <<parse_vars, cli_vars>>

\* cancel_batch on the main thread interleaved with lines 743-745 of the
\* worker: cancel_batch reads is_batch_running while it is still True (line
\* 715), the worker clears is_batch_running and the stop flag and schedules
\* finish_batch_ui, and only then does cancel_batch set the stop flag and
\* disable STOP (716-718).
CancelAtBatchEnd(t) ==
    /\ threads[t].pc = "b_end"
    /\ Gesture("cancel")
    /\ btn_cancel = "normal"
    /\ is_batch_running
    /\ is_batch_running' = FALSE
    /\ stop_event' = TRUE
    /\ btn_cancel' = "disabled"
    /\ afterq' = Append(afterq, Callback("finish_batch_ui", "", <<>>, -1))
    /\ Set(t, IdleThread)
    /\ UNCHANGED <<session, current_profile, current_soup, selections,
                   dropdown_map, combos, btn_fetch, btn_batch>>
    /\ UNCHANGED <<parse_vars, cli_vars>>

\* ------------------------------------------------------- std_list.py
\* get_all_form_inputs (std_list.py:102-116): the named inputs, then each
\* named <select> with the value of its selected option, else of its first
\* option, else ''.
SelectDefault(sel) ==
    LET at == IF sel.selected # 0 THEN sel.selected ELSE 1
    IN  IF sel.options = <<>> \/ sel.options[at][1] = NoAttr THEN ""
        ELSE sel.options[at][1]

get_all_form_inputs(soup) ==
    LET f1 == FormOfInputs(soup.inputs)
        named == {i \in DOMAIN soup.selects :
                    soup.selects[i].name \notin {NoAttr, ""}}
        names == {soup.selects[i].name : i \in named}
    IN  [n \in (DOMAIN f1) \cup names |->
            IF n \in names
            THEN SelectDefault(soup.selects[CHOOSE i \in named :
                                              soup.selects[i].name = n])
            ELSE f1[n]]

\* get_select_options (std_list.py:118-128)
get_select_options(soup, element_id) ==
    IF element_id \notin DOMAIN soup.selects THEN <<>>
    ELSE OptionPairs(soup.selects[element_id].options)

\* The arguments main gives user_select_option at each numbered step.
CliStepName(n) == seq[n]

CliAuto(n) == IF n \in {2, 7} THEN 0 ELSE -1

CliLimit(n) == IF n = 1 THEN 4 ELSE 0

\* user_select_option (std_list.py:141-187): the options it can return, in
\* display order; <<>> stands for (None, None).
user_select_option(soup, n) ==
    LET options == get_select_options(soup, id_map[CliStepName(n)])
        clean == SelectSeq(options, KeepOption)
        kept == IF n = 4
                THEN SelectSeq(clean, LAMBDA o : Contains(o[2], LevelMarker))
                ELSE clean
    IN  IF kept = <<>> THEN <<>>
        ELSE IF CliAuto(n) >= 0
        THEN (IF CliAuto(n) < Len(kept) THEN <<kept[CliAuto(n) + 1]>>
              ELSE <<kept[1]>>)
        ELSE IF CliLimit(n) > 0 THEN Take(kept, CliLimit(n))
        ELSE kept

\* required_dropdowns of make_post_request (std_list.py:196-201)
required_dropdowns ==
    {ServerName[k] : k \in {"Year", "Faculty", "Regulation", "Phase", "Dept",
                            "Semester", "SubjSem"}}

\* The form data make_post_request sends (std_list.py:191-212).
CliPostbackForm(soup, updates, event_target) ==
    LET f0 == get_all_form_inputs(soup)
        f1 == Restrict(f0, (DOMAIN f0) \ {ReportButton})
        f2 == [n \in (DOMAIN f1) \cup required_dropdowns |->
                  IF n \in DOMAIN f1 THEN f1[n] ELSE "0"]
        f3 == ApplyUpdates(f2, soup, updates, DOMAIN updates)
        f4 == Put(f3, "__EVENTTARGET", EventTargetName(soup, event_target))
    IN  Put(Put(f4, "__EVENTARGUMENT", ""), "__LASTFOCUS", "")

\* The form data get_final_report_and_parse sends (std_list.py:230-231).
CliReportForm(soup) ==
    Put(get_all_form_inputs(soup), ReportButton, "REPORT")

\* main ends: by return, or in its except clause (lines 353-354).
CliEnds(how, names) ==
    /\ cli_pc' = "done"
    /\ cli_out' = [how |-> how, names |-> names]

\* The session of std_list.main.
CliSession == 1

\* lines 260-263: the login page is fetched and parsed whatever its status.
CliLoginGet(r) ==
    /\ cli_pc = "login_get"
    /\ r \in LoginGetAnswers(CliSession)
    /\ IF r = RaisedError
       THEN CliEnds("error", <<>>) /\ UNCHANGED cli_form
       ELSE /\ cli_pc' = "login_post"
            /\ cli_form' = Put(Put(Put(get_all_form_inputs(r),
                                 "txt_user_name", "Science"),
                                 "txt_pw", "Science"), "Button1", "LOGIN")
            /\ UNCHANGED cli_out
    /\ UNCHANGED <<cli_step, cli_soup, cli_updates>>
    /\ UNCHANGED <<gui_vars, parse_vars>>

\* line 264: the answer of the login POST is dropped.
CliLoginPost(r) ==
    /\ cli_pc = "login_post"
    /\ r \in LoginPostAnswers(CliSession)
    /\ IF r = RaisedError
       THEN CliEnds("error", <<>>)
       ELSE cli_pc' = "target_get" /\ UNCHANGED cli_out
    /\ UNCHANGED <<cli_step, cli_soup, cli_updates, cli_form>>
    /\ UNCHANGED <<gui_vars, parse_vars>>

\* lines 268-273: the target page is stored, then the marker decides.
CliTargetGet(r) ==
    /\ cli_pc = "target_get"
    /\ r \in TargetGetAnswers(CliSession)
    /\ IF r = RaisedError
       THEN CliEnds("error", <<>>) /\ UNCHANGED <<cli_soup, cli_step>>
       ELSE /\ cli_soup' = r
            /\ IF HasMarker(r)
               THEN cli_pc' = "select" /\ cli_step' = 1 /\ UNCHANGED cli_out
               ELSE CliEnds("login_failed", <<>>) /\ UNCHANGED cli_step
    /\ UNCHANGED <<cli_updates, cli_form>>
    /\ UNCHANGED <<gui_vars, parse_vars>>

\* The user_select_option call of a numbered step and the lines after it
\* (278-339): on None the call raises, without options main returns; the
\* value goes to the updates of the postback of the step (steps 1 and 2 post
\* together with step 3).
CliSelect(c) ==
    /\ cli_pc = "select"
    /\ IF cli_soup = NoPage
       THEN /\ c = 1
            /\ CliEnds("error", <<>>)
            /\ UNCHANGED <<cli_step, cli_updates>>
       ELSE LET opts == user_select_option(cli_soup, cli_step)
            IN  IF opts = <<>>
                THEN /\ c = 1
                     /\ CliEnds("no_options", <<>>)
                     /\ UNCHANGED <<cli_step, cli_updates>>
                ELSE /\ c \in 1..Len(opts)
                     /\ cli_updates' =
                          Put(IF cli_step \in {2, 3} THEN cli_updates
                              ELSE EmptyMap,
                              id_map[CliStepName(cli_step)], opts[c][1])
                     /\ IF cli_step \in {1, 2}
                        THEN cli_step' = cli_step + 1 /\ cli_pc' = "select"
                        ELSE cli_pc' = "post" /\ UNCHANGED cli_step
                     /\ UNCHANGED cli_out
    /\ UNCHANGED <<cli_soup, cli_form>>
    /\ UNCHANGED <<gui_vars, parse_vars>>

\* make_post_request (std_list.py:189-224) and what main does with its
\* result: after step 3 it returns on None (line 301), after steps 4 to 8 it
\* stores the result, None included, after step 9 it drops it (line 342).
CliPost(r) ==
    /\ cli_pc = "post"
    /\ r \in PostbackAnswers(CliSession)
    /\ cli_form' = CliPostbackForm(cli_soup, cli_updates,
                                   id_map[CliStepName(cli_step)])
    /\ LET result == IF r.st # 200 THEN NoPage ELSE r
       IN  IF r = RaisedError
           THEN CliEnds("error", <<>>) /\ UNCHANGED <<cli_soup, cli_step>>
           ELSE IF cli_step = 3 /\ result = NoPage
           THEN CliEnds("aborted", <<>>) /\ UNCHANGED <<cli_soup, cli_step>>
           ELSE IF cli_step = 9
           THEN /\ cli_pc' = "report_post"
                /\ UNCHANGED <<cli_soup, cli_step, cli_out>>
           ELSE /\ cli_soup' = result
                /\ cli_step' = cli_step + 1
                /\ cli_pc' = "select"
                /\ UNCHANGED cli_out
    /\ UNCHANGED cli_updates
    /\ UNCHANGED <<gui_vars, parse_vars>>

\* get_final_report_and_parse, lines 230-234: the report POST, its answer
\* dropped.
CliReportPost(r) ==
    /\ cli_pc = "report_post"
    /\ r \in ReportPostAnswers(CliSession)
    /\ cli_form' = CliReportForm(cli_soup)
    /\ IF r = RaisedError
       THEN CliEnds("error", <<>>)
       ELSE cli_pc' = "report_get" /\ UNCHANGED cli_out
    /\ UNCHANGED <<cli_step, cli_soup, cli_updates>>
    /\ UNCHANGED <<gui_vars, parse_vars>>

\* The report bodies std_list.main is run on.
CliReports ==
    {EmptyReport,
     [table |-> TRUE,
      rows |-> << [in |-> TRUE, cells |-> MkCells(8, <<"1">>, <<"s">>, <<"A">>)] >>]}

\* lines 237-241 and 346-350: the report GET; a non-200 answer gives no
\* names, a 200 answer is parsed.
CliReportGet(r, body) ==
    /\ cli_pc = "report_get"
    /\ r \in ReportGetAnswers(CliSession)
    /\ body \in CliReports
    /\ IF r = RaisedError
       THEN body = EmptyReport /\ CliEnds("error", <<>>)
       ELSE IF r.st # 200
       THEN body = EmptyReport /\ CliEnds("no_students", <<>>)
       ELSE LET names == StdListNames(body)
            IN  CliEnds(IF names = <<>> THEN "no_students" ELSE "saved", names)
    /\ UNCHANGED <<cli_step, cli_soup, cli_updates, cli_form>>
    /\ UNCHANGED <<gui_vars, parse_vars>>

\* ------------------------------------------------------- specification
Answers ==
    UNION {LoginGetAnswers(s) \cup TargetGetAnswers(s) \cup PostbackAnswers(s)
           \cup ReportPostAnswers(s) \cup ReportGetAnswers(s) :
           s \in 1..MaxSessions}

Next ==
    \/ \E key \in Steps, idx \in 0..3 : UserSelect(key, idx)
    \/ \E i \in 1..Len(afterq) : RunAfter(i)
    \/ toggle_account
    \/ start_single_fetch
    \/ start_batch_process
    \/ cancel_batch
    \/ \E t \in Slots : LoginGetSend(t)
    \/ \E t \in Slots, r \in Answers : LoginGetRecv(t, r)
    \/ \E t \in Slots : LoginPostSend(t)
    \/ \E t \in Slots, r \in Answers : LoginPostRecv(t, r)
    \/ \E t \in Slots : LoginTargetSend(t)
    \/ \E t \in Slots, r \in Answers : LoginTargetRecv(t, r)
    \/ \E t \in Slots : MakePostBuild(t)
    \/ \E t \in Slots : MakePostSend(t)
    \/ \E t \in Slots, r \in Answers : MakePostRecv(t, r)
    \/ \E t \in Slots : StepLoad(t)
    \/ \E t \in Slots : FetchBuild(t)
    \/ \E t \in Slots : FetchPostSend(t)
    \/ \E t \in Slots, r \in Answers : FetchPostRecv(t, r)
    \/ \E t \in Slots : FetchGetSend(t)
    \/ \E t \in Slots, r \in Answers : FetchGetRecv(t, r)
    \/ \E t \in Slots : FetchFinally(t)
    \/ \E t \in Slots : BatchCheck(t)
    \/ \E t \in Slots : BatchEnd(t)
    \/ \E t \in Slots : CancelAtBatchEnd(t)

vars == <<gui_vars, parse_vars, cli_vars>>

Spec == Init /\ [][Next]_vars

\* The application with a user who is impatient with the SubjSem combo box,
\* STOP, DOWNLOAD ALL and the account switch only.
InitBatch ==
    /\ GuiInit
    /\ user = "batch"
    /\ ParseIdle
    /\ CliStart("off")

SpecBatch == InitBatch /\ [][Next]_vars

\* The steps the program is bound to take once they are possible: the main
\* loop runs its scheduled callbacks, a live thread takes its next step, and
\* a request made with a timeout (perform_login, timeout=30, lines 456-469;
\* make_post, timeout=45, line 574) comes back with an answer or raises. The
\* report POST and GET of fetch_report_thread (lines 769-771 and 778-779)
\* are made without a timeout: nothing in the code bounds the wait for
\* their answer, so FetchPostRecv and FetchGetRecv are not among them.
TimedWork ==
    \/ \E i \in 1..Len(afterq) : RunAfter(i)
    \/ \E t \in Slots : LoginGetSend(t)
    \/ \E t \in Slots, r \in Answers : LoginGetRecv(t, r)
    \/ \E t \in Slots : LoginPostSend(t)
    \/ \E t \in Slots, r \in Answers : LoginPostRecv(t, r)
    \/ \E t \in Slots : LoginTargetSend(t)
    \/ \E t \in Slots, r \in Answers : LoginTargetRecv(t, r)
    \/ \E t \in Slots : MakePostBuild(t)
    \/ \E t \in Slots : MakePostSend(t)
    \/ \E t \in Slots, r \in Answers : MakePostRecv(t, r)
    \/ \E t \in Slots : StepLoad(t)
    \/ \E t \in Slots : FetchBuild(t)
    \/ \E t \in Slots : FetchPostSend(t)
    \/ \E t \in Slots : FetchGetSend(t)
    \/ \E t \in Slots : FetchFinally(t)
    \/ \E t \in Slots : BatchCheck(t)
    \/ \E t \in Slots : BatchEnd(t)

\* The batch user's application, with the steps of TimedWork taken whenever
\* they stay possible.
SpecBatchFair == InitBatch /\ [][Next]_vars /\ WF_vars(TimedWork)

\* ------------------------------------------------- std_list.main, run alone
InitCli ==
    /\ GuiInit
    /\ user = "any"
    /\ ParseIdle
    /\ CliStart("login_get")

NextCli ==
    \/ \E r \in Answers : CliLoginGet(r)
    \/ \E r \in Answers : CliLoginPost(r)
    \/ \E r \in Answers : CliTargetGet(r)
    \/ \E c \in 1..4 : CliSelect(c)
    \/ \E r \in Answers : CliPost(r)
    \/ \E r \in Answers : CliReportPost(r)
    \/ \E r \in Answers, body \in CliReports : CliReportGet(r, body)

\* ---------------------------------- either program, run from its start
InitPrograms == Init \/ InitCli

NextPrograms ==
    \/ cli_pc = "off" /\ Next
    \/ cli_pc # "off" /\ NextCli

SpecPrograms == InitPrograms /\ [][NextPrograms]_vars

\* ------------------------------------------- the report parsers, run alone
InitParse ==
    /\ GuiInit
    /\ user = "any"
    /\ CliStart("off")
    /\ \E n \in 0..MaxRows, tb \in BOOLEAN : parse_in \in ReportPages(n, tb)
    /\ parse_done = {}
    /\ parse_out = NothingParsed

\* The three parser variants are run on the page.
RunParsers ==
    /\ parse_done = {}
    /\ parse_done' = {"gui", "std", "ls"}
    /\ parse_out' = [gui |-> ParseStudents(parse_in),
                     std |-> StdListNames(parse_in),
                     ls |-> ListStudentsNames(parse_in),
                     warned |-> ParseWarnings(parse_in)]
    /\ UNCHANGED <<gui_vars, cli_vars, parse_in>>

NextParse == RunParsers

SpecParse == InitParse /\ [][NextParse]_vars

\* ------------------------------------------ the option cleaning, run alone
\* A page whose Year <select> holds up to MaxOptions <option>s: real entries
\* (a value of their own), the placeholder, an entry whose text is white
\* space and then the placeholder word, one without a value attribute, and
\* one whose text holds the placeholder marker after other text.
OptionValues == <<"4", "5", "6", "7", "8", "9", "10", "11">>

OptionKinds(i) ==
    << <<OptionValues[i], <<"y", IndexDigits[i + 1]>> >>,
       <<"0", ChooseLabel>>,
       <<OptionValues[i], <<" ", "Select", "x">> >>,
       <<NoAttr, <<"n", IndexDigits[i + 1]>> >>,
       <<OptionValues[i], <<"x", "CHOOSE">> >> >>

\* The kinds of <option> of the Phase <select>: a level entry, another real
\* entry, the placeholder, an entry with the level marker and the value "0",
\* and a level entry whose marker stands inside a padded text.
PhaseKinds(i) ==
    << <<OptionValues[i], <<"LEVEL", IndexDigits[i + 1]>> >>,
       <<OptionValues[i], <<"o", IndexDigits[i + 1]>> >>,
       <<"0", ChooseLabel>>,
       <<"0", <<"LEVEL">> >>,
       <<OptionValues[i], <<" ", "x", "LEVEL", IndexDigits[i + 1], " ">> >> >>

\* The page whose Year and Phase <select>s hold, at each position, the
\* option of the kind chosen for it.
OptionPage(kinds) ==
    [st |-> 200, inputs |-> <<>>,
     selects |-> [i \in {id_map["Year"], id_map["Phase"]} |->
                    IF i = id_map["Year"]
                    THEN [name |-> ServerName["Year"],
                          options |-> [k \in 1..Len(kinds) |->
                                         OptionKinds(k)[kinds[k]]],
                          selected |-> 0]
                    ELSE [name |-> ServerName["Phase"],
                          options |-> [k \in 1..Len(kinds) |->
                                         PhaseKinds(k)[kinds[k]]],
                          selected |-> 0]]]

InitOptions ==
    /\ GuiInit
    /\ user = "any"
    /\ CliStart("off")
    /\ \E n \in 0..MaxOptions :
          \E kinds \in [1..n -> 1..5] : parse_in = OptionPage(kinds)
    /\ parse_done = {}
    /\ parse_out = NothingParsed

\* The Year options as extract_options cleans them, as initiate_sequence
\* and load_step cut them, and as user_select_option displays them; the
\* Phase options as load_step and user_select_option filter them.
RunOptions ==
    /\ parse_done = {}
    /\ parse_done' = {"options"}
    /\ parse_out' =
          [gui |-> extract_options(parse_in, id_map["Year"]),
           first |-> Take(extract_options(parse_in, id_map["Year"]), 4),
           year |-> LoadOptions(parse_in, "Year"),
           std |-> SelectSeq(get_select_options(parse_in, id_map["Year"]),
                             KeepOption),
           shown |-> user_select_option(parse_in, 1),
           phase |-> LoadOptions(parse_in, "Phase"),
           level |-> user_select_option(parse_in, 4)]
    /\ UNCHANGED <<gui_vars, cli_vars, parse_in>>

NextOptions == RunOptions

SpecOptions == InitOptions /\ [][NextOptions]_vars

\* --------------------------------------------- the form codec, run alone
\* The kinds of <input> of the page: the hidden state, the report button, an
\* input without a name, one without a value, one of the same name with a
\* value, and the hidden event target field.
FormInputKinds ==
    { [name |-> "__VIEWSTATE", value |-> ViewState(1)],
      [name |-> ReportButton, value |-> "REPORT"],
      [name |-> NoAttr, value |-> "x"],
      [name |-> "h", value |-> NoAttr],
      [name |-> "h", value |-> "v"],
      [name |-> "__EVENTTARGET", value |-> "old"] }

\* The forms the Regulation <select> takes when the page has it: named or
\* not, with or without <option>s, one of them marked selected or none, the
\* first one with or without a value.
RegulationKinds ==
    { [name |-> ServerName["Regulation"], selected |-> 0,
       options |-> ServerOptions("Regulation")],
      [name |-> ServerName["Regulation"], selected |-> 2,
       options |-> ServerOptions("Regulation")],
      [name |-> ServerName["Regulation"], selected |-> 0, options |-> <<>>],
      [name |-> ServerName["Regulation"], selected |-> 0,
       options |-> << <<NoAttr, ChooseLabel>>, <<"5", <<"a">> >> >>],
      [name |-> NoAttr, selected |-> 0,
       options |-> ServerOptions("Regulation")] }

PhaseSelect ==
    [name |-> ServerName["Phase"], selected |-> 0,
     options |-> ServerOptions("Phase")]

\* The <select>s of the page: none, Regulation, Phase, or both.
FormSelects ==
    {EmptyMap}
    \cup {[i \in {id_map["Regulation"]} |-> r] : r \in RegulationKinds}
    \cup {[i \in {id_map["Phase"]} |-> PhaseSelect]}
    \cup {[i \in {id_map["Regulation"], id_map["Phase"]} |->
              IF i = id_map["Regulation"] THEN r ELSE PhaseSelect] :
           r \in RegulationKinds}

FormPages(n) ==
    [st : {200}, inputs : [1..n -> FormInputKinds], selects : FormSelects]

\* The SelectionSets the postback is built with.
SelectionPool ==
    { EmptyMap,
      [k \in {"Year"} |-> "4"],
      [k \in {"Regulation"} |-> "7"],
      [k \in {"Regulation", "Phase"} |-> IF k = "Phase" THEN "9" ELSE "7"] }

InitForm ==
    /\ GuiInit
    /\ user = "any"
    /\ CliStart("off")
    /\ \E n \in 0..MaxInputs :
          parse_in \in [page : FormPages(n), sel : SelectionPool,
                        key : {"Regulation", "Phase"}, val : {"7"}]
    /\ parse_done = {}
    /\ parse_out = NothingParsed

\* The field extractors of the two programs are run on the page, and the
\* postback of the step parse_in.key with the value parse_in.val is built
\* the way make_post (when its guard lets it) and make_post_request build it.
RunForm ==
    /\ parse_done = {}
    /\ parse_done' = {"form"}
    /\ LET page == parse_in.page
           tid == id_map[parse_in.key]
           updates == [i \in {tid} |-> parse_in.val]
           \* std_list.main, lines 297-300: the Regulation postback updates
           \* Year and Faculty too.
           initial == [i \in {id_map["Year"], id_map["Faculty"], tid} |->
                         parse_in.val]
       IN  parse_out' =
             [fields |-> get_form_data(page),
              inputs |-> get_all_form_inputs(page),
              sent |-> CanPost(page),
              post |-> IF CanPost(page)
                       THEN PostbackForm(page, parse_in.sel, updates, tid)
                       ELSE EmptyMap,
              request |-> CliPostbackForm(page,
                            IF parse_in.key = "Regulation" THEN initial
                            ELSE updates, tid)]
    /\ UNCHANGED <<gui_vars, cli_vars, parse_in>>

NextForm == RunForm

SpecForm == InitForm /\ [][NextForm]_vars

\* --------------------------------------------- parse_results, run alone
InitReport ==
    /\ GuiInit
    /\ user = "any"
    /\ CliStart("off")
    /\ \/ \E n \in 0..MaxHeaderPageRows : parse_in \in HeaderPages(n)
       \/ \E n \in 0..MaxText : parse_in \in TextPages(n)
    /\ parse_done = {}
    /\ parse_out = NothingParsed

RunReport ==
    /\ parse_done = {}
    /\ parse_done' = {"report"}
    /\ parse_out' = parse_results(parse_in)
    /\ UNCHANGED <<gui_vars, cli_vars, parse_in>>

NextReport == RunReport

SpecReport == InitReport /\ [][NextReport]_vars

\* ================================================================ claims
\* The request a thread has just sent at this step (same slot before and
\* after, no thread started or ended in the step).
Moved(t, from, to) ==
    /\ Len(threads') = Len(threads)
    /\ t \in 1..Len(threads)
    /\ threads[t].pc = from
    /\ threads'[t].pc = to

JustSent(t, from, to) == Moved(t, from, to)

\* C1: at no time are two requests in flight on the same Session.
C1_OneRequestPerSession ==
    \A t, u \in 1..Len(threads) :
        (t # u /\ threads[t].up # 0) => threads[t].up # threads[u].up

\* C2: after a failed cascade postback process_next_step does not go on to
\* load_step for the next step.
C2_NoStepAfterFailedPostback ==
    \A t \in 1..Len(threads) :
        ~(/\ threads[t].kind = "step"
          /\ threads[t].pc = "s_load"
          /\ StepPosts(threads[t].key)
          /\ ~threads[t].ok)

\* The form data carries every step of the SelectionSet with its chosen value.
CarriesSelections(form, sel) ==
    \A k \in DOMAIN sel :
        ServerName[k] \in DOMAIN form /\ form[ServerName[k]] = sel[k]

\* C3: every cascade postback and every report request carries, for each
\* step in the SelectionSet at the time it is sent, that step's field set to
\* the chosen value.
C3_RequestsCarrySelections ==
    [][\A t \in 1..Len(threads) :
          (JustSent(t, "mp_send", "mp_recv") \/ JustSent(t, "fr_send", "fr_recv"))
              => CarriesSelections(threads'[t].form, selections)]_vars

\* on_selection(k) ran to its end in this step: it started its step thread.
OnSelectionRan(k) ==
    /\ Len(threads') = Len(threads) + 1
    /\ threads'[Len(threads')].kind = "step"
    /\ threads'[Len(threads')].key = k

\* C4: after on_selection(s) with chosen value v, SelectionSet[s] = v, no
\* step after s is in the SelectionSet and the entries of the steps before s
\* are unchanged.
C4_SelectionStoredAndTruncated ==
    [][\A k \in Steps :
          OnSelectionRan(k) =>
            /\ ~is_batch_running
            /\ k \in DOMAIN selections'
            /\ selections'[k] = dropdown_map[k][combos'[k].cur + 1][1]
            /\ selections'[k] = threads'[Len(threads')].val
            /\ (DOMAIN selections') \cap NextSteps(k) = {}
            /\ \A e \in Steps \ (NextSteps(k) \cup {k}) :
                  /\ (e \in DOMAIN selections') <=> (e \in DOMAIN selections)
                  /\ e \in DOMAIN selections => selections'[e] = selections[e]
      ]_vars

\* C4 witness: Regulation has just been re-selected after Phase had been
\* chosen (the options of Dept are cached): Phase is gone, Year and Faculty
\* are kept.
C4_Witness ==
    /\ threads # <<>>
    /\ threads[Len(threads)].kind = "step"
    /\ threads[Len(threads)].key = "Regulation"
    /\ threads[Len(threads)].pc = "mp_build"
    /\ "Dept" \in DOMAIN dropdown_map
    /\ DOMAIN selections = {"Year", "Faculty", "Regulation"}

\* C5: no request is sent on a Session with form data extracted from a page
\* that another Session produced (the __VIEWSTATE it echoes is that of the
\* session it is sent on).
C5_FormFromSameSession ==
    [][\A t \in 1..Len(threads) :
          (\/ JustSent(t, "mp_send", "mp_recv")
           \/ JustSent(t, "fr_send", "fr_recv")
           \/ JustSent(t, "l_post", "l_post_recv"))
              => ("__VIEWSTATE" \in DOMAIN threads'[t].form
                    => threads'[t].form["__VIEWSTATE"]
                          = ViewState(threads'[t].up))]_vars

\* The positions of a batch worker inside fetch_report_thread, before its
\* finally clause.
FetchPcs == {"fr_build", "fr_send", "fr_recv", "fr_get", "fr_get_recv"}

BatchMidCourse(th) ==
    th.kind = "batch" /\ th.pc \in {"fr_send", "fr_get"}

\* C7: in a batch that is not cancelled every course of the list is
\* attempted once, in list order (whatever became of the earlier ones), and
\* the session is not replaced between two requests of a course.
C7_EveryCourseOnceSameSession ==
    [][\A t \in 1..Len(threads) :
          (threads[t].kind = "batch" /\ ~stop_event) =>
            /\ session' # session => ~BatchMidCourse(threads[t])
            /\ Len(threads') = Len(threads) =>
                  /\ threads'[t].subjects = threads[t].subjects
                  /\ threads'[t].i \in {threads[t].i, threads[t].i + 1}
                  /\ threads'[t].i = threads[t].i + 1 =>
                        /\ threads[t].pc \in {"mp_build", "mp_recv", "fr_finally"}
                        /\ threads'[t].pc = "b_check"
                  /\ Moved(t, "b_check", "mp_build") =>
                        /\ threads[t].i \in 1..Len(threads[t].subjects)
                        /\ threads'[t].val =
                              threads[t].subjects[threads[t].i][1]
                  /\ Moved(t, "b_check", "b_end") =>
                        threads[t].i = Len(threads[t].subjects) + 1
      ]_vars

\* The page a login left behind when its target page lacked the marker.
FailedLoginPages == {LoginPage(s) : s \in 1..MaxSessions} \cup {ErrorPage}

\* C8: a login whose target page lacks the marker starts no cascade: it
\* schedules no initiate_sequence, touches no combo box, option cache,
\* selection or button and ends (gui_std); std_list.main returns at once and
\* does nothing more. initiate_sequence is only ever scheduled in a step
\* that stored a page with the marker.
C8_FailedLoginStartsNothing ==
    [][/\ \A t \in 1..Len(threads) :
             (/\ threads[t].kind = "login"
              /\ threads[t].pc = "l_tgt_recv"
              /\ threads' = RemoveAt(threads, t)
              /\ ~HasMarker(current_soup')) =>
                 /\ afterq' = afterq
                 /\ combos' = combos
                 /\ dropdown_map' = dropdown_map
                 /\ selections' = selections
                 /\ <<btn_fetch, btn_batch, btn_cancel>>' =
                        <<btn_fetch, btn_batch, btn_cancel>>
       /\ (/\ Len(afterq') = Len(afterq) + 1
           /\ afterq'[Len(afterq')].fn = "initiate_sequence")
             => HasMarker(current_soup')
       /\ (cli_pc = "target_get" /\ cli_soup' # NoPage /\ ~HasMarker(cli_soup'))
             => cli_pc' = "done" /\ cli_out'.how = "login_failed"
       /\ cli_out.how = "login_failed" => cli_vars' = cli_vars
      ]_vars

\* C8 witness: a login has stored a page without the marker and ended, and
\* nothing is pending, loaded or enabled.
C8_Witness ==
    /\ current_soup \in FailedLoginPages
    /\ threads = <<>>
    /\ afterq = <<>>
    /\ dropdown_map = EmptyMap
    /\ \A k \in Steps : combos[k].state = "disabled"

\* C9: a response whose status is not 200 is never parsed as a page: neither
\* current_soup nor a thread's own soup comes from a non-200 answer.
C9_OnlyOkResponsesParsed ==
    /\ current_soup.st \in {0, 200}
    /\ \A t \in 1..Len(threads) : threads[t].soup.st \in {0, 200}

\* C10: the list the report parser returns is non-decreasing by id and no two
\* of its records share a name (in the two name-only variants: no name twice).
Distinct(s) == \A i, j \in 1..Len(s) : i # j => s[i] # s[j]

C10_SortedAndUniqueNames ==
    parse_done # {} =>
        /\ \A i, j \in 1..Len(parse_out.gui) :
              i < j => parse_out.gui[i].id <= parse_out.gui[j].id
        /\ Distinct(NamesOf(parse_out.gui))
        /\ Distinct(parse_out.std)
        /\ Distinct(parse_out.ls)

\* C10 witness: a page whose accepted rows are out of id order and repeat a
\* name has been parsed.
C10_Witness ==
    /\ parse_done # {}
    /\ LET raw == CollectRecords(ScannedRows(parse_in))
       IN  /\ \E i, j \in 1..Len(raw) : i < j /\ raw[i].id > raw[j].id
           /\ ~Distinct(NamesOf(raw))
           /\ Len(parse_out.gui) >= 2

\* C11: for every name among the accepted rows of a report page the result
\* of parse_results holds exactly one record of that name, and it is the
\* accepted row of smallest id with that name, the earliest in page order
\* when several tie on that id.
C11_SmallestIdPerName ==
    parse_done # {} =>
        LET raw == CollectRecords(ScannedRows(parse_in))
            out == parse_out.gui
        IN  \A i \in 1..Len(raw) :
               LET same == {j \in 1..Len(raw) : raw[j].name = raw[i].name}
                   first == CHOOSE k \in same :
                               \A j \in same :
                                  \/ raw[k].id < raw[j].id
                                  \/ raw[k].id = raw[j].id /\ k <= j
               IN  /\ Cardinality({m \in 1..Len(out) :
                                     out[m].name = raw[i].name}) = 1
                   /\ \E m \in 1..Len(out) : out[m] = raw[first]

\* C11 witness: a page has been parsed in which a name occurs on a larger id
\* first, and twice on its smallest id with different seats.
C11_Witness ==
    /\ parse_done # {}
    /\ LET raw == CollectRecords(ScannedRows(parse_in))
       IN  \E i, j, k \in 1..Len(raw) :
              /\ i < j /\ j < k
              /\ raw[i].name = raw[j].name /\ raw[j].name = raw[k].name
              /\ raw[i].id > raw[j].id
              /\ raw[j].id = raw[k].id
              /\ raw[j].seat # raw[k].seat

\* A row as the claims describe it: at least 8 cells, the last one, trimmed,
\* a non-empty string of digits.
DigitString(txt) ==
    /\ txt # <<>>
    /\ \A i \in 1..Len(txt) : txt[i] \in DecimalDigits \cup OtherDigits

EightCellsDigitLast(cells) ==
    /\ Len(cells) >= 8
    /\ DigitString(Strip(cells[Len(cells)]))

\* The name of a row: third cell from the right, non-breaking spaces removed,
\* trimmed.
NameOfRow(cells) ==
    Strip(SelectSeq(Strip(cells[Len(cells) - 2]), LAMBDA c : c # NBSP))

\* The seat number of a row: second cell from the right, treated alike.
SeatOfRow(cells) ==
    Strip(SelectSeq(Strip(cells[Len(cells) - 1]), LAMBDA c : c # NBSP))

\* A row every variant accepts: eight cells or more, a decimal last cell, a
\* name that is not empty and does not hold the header label.
PlainGoodRow(cells) ==
    /\ Len(cells) >= 8
    /\ Strip(cells[Len(cells)]) # <<>>
    /\ \A i \in 1..Len(Strip(cells[Len(cells)])) :
          Strip(cells[Len(cells)])[i] \in DecimalDigits
    /\ NameOfRow(cells) # <<>>
    /\ ~Contains(NameOfRow(cells), NameHeader)

\* C13: a row contributes a record only if it has at least 8 cells and a
\* digit-string last cell; any other row contributes nothing and does not
\* keep the rows after it from being parsed.
C13_OnlyQualifyingRowsContribute ==
    parse_done # {} =>
        LET scanned == ScannedRows(parse_in)
            all == AllRows(parse_in)
        IN  /\ \A m \in 1..Len(parse_out.gui) :
                  \E i \in 1..Len(scanned) :
                     /\ EightCellsDigitLast(scanned[i].cells)
                     /\ NameOfRow(scanned[i].cells) = parse_out.gui[m].name
                     /\ SeatOfRow(scanned[i].cells) = parse_out.gui[m].seat
            /\ \A m \in 1..Len(parse_out.std) :
                  \E i \in 1..Len(scanned) :
                     /\ EightCellsDigitLast(scanned[i].cells)
                     /\ NameOfRow(scanned[i].cells) = parse_out.std[m]
            /\ \A m \in 1..Len(parse_out.ls) :
                  \E i \in 1..Len(all) :
                     /\ EightCellsDigitLast(all[i].cells)
                     /\ NameOfRow(all[i].cells) = parse_out.ls[m]
            /\ \A i \in 1..Len(scanned) :
                  PlainGoodRow(scanned[i].cells) =>
                     /\ \E m \in 1..Len(parse_out.gui) :
                           parse_out.gui[m].name = NameOfRow(scanned[i].cells)
                     /\ \E m \in 1..Len(parse_out.std) :
                           parse_out.std[m] = NameOfRow(scanned[i].cells)
            /\ \A i \in 1..Len(all) :
                  PlainGoodRow(all[i].cells) =>
                     \E m \in 1..Len(parse_out.ls) :
                        parse_out.ls[m] = NameOfRow(all[i].cells)

\* C13 witness: a page has been parsed in which a row of 5 cells and a row
\* whose last cell is no digit string come before a row that is accepted.
C13_Witness ==
    /\ parse_done # {}
    /\ LET scanned == ScannedRows(parse_in)
       IN  /\ Len(scanned) = 3
           /\ Len(scanned[1].cells) = 5
           /\ Len(scanned[2].cells) >= 8
           /\ ~DigitString(Strip(scanned[2].cells[Len(scanned[2].cells)]))
           /\ PlainGoodRow(scanned[3].cells)
           /\ Len(parse_out.gui) = 1

\* A qualifying row of C14: at least 8 cells, the last one, trimmed, a
\* non-empty string of decimal digits.
DecimalLastCell(cells) ==
    /\ Len(cells) >= 8
    /\ Strip(cells[Len(cells)]) # <<>>
    /\ \A i \in 1..Len(Strip(cells[Len(cells)])) :
          Strip(cells[Len(cells)])[i] \in DecimalDigits

\* Each parser variant keeps the name of a qualifying row exactly when
\* Discarded does not hold of it.
KeptUnless(Discarded(_)) ==
    LET scanned == ScannedRows(parse_in)
        all == AllRows(parse_in)
    IN  /\ \A i \in 1..Len(scanned) :
              DecimalLastCell(scanned[i].cells) =>
                 LET name == NameOfRow(scanned[i].cells)
                 IN  /\ (\E m \in 1..Len(parse_out.gui) :
                            parse_out.gui[m].name = name) <=> ~Discarded(name)
                     /\ (\E m \in 1..Len(parse_out.std) :
                            parse_out.std[m] = name) <=> ~Discarded(name)
        /\ \A i \in 1..Len(all) :
              DecimalLastCell(all[i].cells) =>
                 LET name == NameOfRow(all[i].cells)
                 IN  (\E m \in 1..Len(parse_out.ls) :
                         parse_out.ls[m] = name) <=> ~Discarded(name)

\* C14 as stated: a qualifying row is discarded exactly when its name, with
\* non-breaking spaces removed and trimmed, is empty or equals the header
\* label; every other qualifying row yields a candidate record.
C14_DiscardedIffEmptyOrHeader ==
    parse_done # {} =>
        KeptUnless(LAMBDA name : name = <<>> \/ name = NameHeader)

\* C14 as amended: a qualifying row is discarded exactly when its name, with
\* non-breaking spaces removed and trimmed, is empty or contains the header
\* label; every other qualifying row yields a candidate record.
C14_DiscardedIffEmptyOrHoldsHeader ==
    parse_done # {} =>
        KeptUnless(LAMBDA name : name = <<>> \/ Contains(name, NameHeader))

\* C14 witness: a page has been parsed with a qualifying row whose name holds
\* the header label among other text, one whose name is only a non-breaking
\* space, and one that is kept.
C14_Witness ==
    /\ parse_done # {}
    /\ LET scanned == ScannedRows(parse_in)
       IN  /\ \A i \in 1..Len(scanned) : DecimalLastCell(scanned[i].cells)
           /\ \E i, j, k \in 1..Len(scanned) :
                 /\ Contains(NameOfRow(scanned[i].cells), NameHeader)
                 /\ NameOfRow(scanned[i].cells) # NameHeader
                 /\ scanned[j].cells[Len(scanned[j].cells) - 2] = <<NBSP>>
                 /\ \E m \in 1..Len(parse_out.gui) :
                       parse_out.gui[m].name = NameOfRow(scanned[k].cells)

\* C17: in every parser variant, when the page holds the results table only
\* rows inside that table contribute to the result (every row of the page
\* is scanned only when the table is absent).
C17_OnlyTableRowsWhenTablePresent ==
    (parse_done # {} /\ parse_in.table) =>
        LET inside == SelectSeq(parse_in.rows, LAMBDA r : r.in)
            FromInside(name) ==
                \E i \in 1..Len(inside) :
                    /\ EightCellsDigitLast(inside[i].cells)
                    /\ NameOfRow(inside[i].cells) = name
        IN  /\ \A m \in 1..Len(parse_out.gui) :
                  FromInside(parse_out.gui[m].name)
            /\ \A m \in 1..Len(parse_out.std) : FromInside(parse_out.std[m])
            /\ \A m \in 1..Len(parse_out.ls) : FromInside(parse_out.ls[m])

\* The cells of the header row of the page that was parsed.
HeaderCellsOf(page) == page.rows[HeaderRowIndex(page)].cells

\* C15 as stated: for a header row of n cells extract_table_headers returns
\* the empty list when n <= 6 and otherwise exactly the texts of the first
\* n-6 cells in reversed source order.
C15_HeadersAreFirstCellsReversed ==
    (parse_done # {} /\ HeaderRowIndex(parse_in) # 0) =>
        LET cells == HeaderCellsOf(parse_in)
            n == Len(cells)
            headers == parse_out.headers
        IN  IF n <= 6 THEN headers = <<>>
            ELSE /\ Len(headers) = n - 6
                 /\ \A j \in 1..(n - 6) :
                       headers[j] = Strip(cells[n - 5 - j])

\* C15 as amended: the empty list when n <= 6, otherwise one entry per cell
\* of the first n-6, in reversed source order: the text of the cell, or,
\* when that text is already among the entries of the cells before it, the
\* text followed by _i, i being the position of the cell counted from 0.
C15_HeadersReversedDuplicatesSuffixed ==
    (parse_done # {} /\ HeaderRowIndex(parse_in) # 0) =>
        LET cells == HeaderCellsOf(parse_in)
            n == Len(cells)
            headers == parse_out.headers
            entry(p) == headers[n - 5 - p]
        IN  IF n <= 6 THEN headers = <<>>
            ELSE /\ Len(headers) = n - 6
                 /\ \A p \in 1..(n - 6) :
                       entry(p) =
                          IF \E q \in 1..(p - 1) : entry(q) = Strip(cells[p])
                          THEN Strip(cells[p]) \o <<"_", IndexDigits[p]>>
                          ELSE Strip(cells[p])

\* C15 witness: a page has been parsed whose header row has 9 cells, two of
\* the first three with the same text, and three headers came out.
C15_Witness ==
    /\ parse_done # {}
    /\ HeaderRowIndex(parse_in) # 0
    /\ Len(HeaderCellsOf(parse_in)) = 9
    /\ HeaderCellsOf(parse_in)[1] = HeaderCellsOf(parse_in)[3]
    /\ HeaderCellsOf(parse_in)[1] # HeaderCellsOf(parse_in)[2]
    /\ Len(parse_out.headers) = 3

\* The record C16 describes for a row of n cells: id the number in the last
\* cell, seat and name the two cells before it, grades[i] the text of cell
\* n-7-i counted from 0 (cell n-5-j counted from 1, for the j-th grade).
IsRecordOfRow(rec, cells) ==
    LET n == Len(cells)
    IN  /\ rec.id = IntOf(Strip(cells[n]))
        /\ rec.seat = SeatOfRow(cells)
        /\ rec.name = NameOfRow(cells)
        /\ Len(rec.grades) = n - 6
        /\ \A j \in 1..(n - 6) : rec.grades[j] = Strip(cells[n - 5 - j])

\* C16: every accepted row of n cells gives id = int(last cell), seat and
\* name from the second and third cell from the right, and n-6 grades,
\* grades[i] from cell n-7-i; so a row with as many cells as the header row
\* has grades[i] from the same source column as headers[i].
C16_FieldsAndGradesByPosition ==
    parse_done # {} =>
        LET scanned == ScannedRows(parse_in)
            out == parse_out.gui
        IN  /\ \A m \in 1..Len(out) :
                  \E i \in 1..Len(scanned) :
                     /\ PlainGoodRow(scanned[i].cells)
                     /\ IsRecordOfRow(out[m], scanned[i].cells)
            /\ \A i \in 1..Len(scanned) :
                  PlainGoodRow(scanned[i].cells) =>
                     \E m \in 1..Len(out) :
                        out[m].name = NameOfRow(scanned[i].cells)
            /\ \A m \in 1..Len(out) :
                  (/\ HeaderRowIndex(parse_in) # 0
                   /\ Len(HeaderCellsOf(parse_in)) = Len(out[m].grades) + 6)
                  => /\ Len(parse_out.headers) = Len(out[m].grades)
                     /\ \A j \in 1..Len(out[m].grades) :
                           LET col == Len(out[m].grades) + 1 - j
                               label == Strip(HeaderCellsOf(parse_in)[col])
                           IN  /\ out[m].grades[j]
                                    = <<"c", IndexDigits[col + 1]>>
                               /\ parse_out.headers[j] \in
                                    {label, label \o <<"_", IndexDigits[col]>>}

\* C16 witness: a page has been parsed with a header row of 9 cells and an
\* accepted row of 9 cells, which gave a record with three grades.
C16_Witness ==
    /\ parse_done # {}
    /\ HeaderRowIndex(parse_in) # 0
    /\ Len(HeaderCellsOf(parse_in)) = 9
    /\ \E m \in 1..Len(parse_out.gui) :
          /\ Len(parse_out.gui[m].grades) = 3
          /\ parse_out.gui[m].id = 12
          /\ parse_out.gui[m].seat = <<"s", "1">>
          /\ parse_out.gui[m].name = <<"A">>

\* The alphanumeric token right before position p of a text, white space in
\* between allowed (<<>> when there is none).
SpacesBefore(txt, p) ==
    CHOOSE w \in 0..(p - 1) :
        /\ \A j \in (p - w)..(p - 1) : IsSpace(txt[j])
        /\ w = p - 1 \/ ~IsSpace(txt[p - w - 1])

TokenBefore(txt, p) ==
    LET e == p - 1 - SpacesBefore(txt, p)
        k == CHOOSE k \in 0..e :
                /\ \A j \in (e - k + 1)..e : txt[j] \in AlnumChars
                /\ k = e \/ txt[e - k] \notin AlnumChars
    IN  SubSeq(txt, e - k + 1, e)

LabelPositions(txt) == {p \in 1..Len(txt) : txt[p] = CodeLabel}

\* C18 as stated: the course code is the alphanumeric token immediately
\* before the first occurrence of the label in the page text, and the
\* constant "Student_List" when there is no such token and label.
C18_TokenBeforeFirstLabel ==
    parse_done # {} =>
        LET txt == parse_in.text
            labels == LabelPositions(txt)
            first == CHOOSE p \in labels : \A q \in labels : p <= q
        IN  IF labels # {} /\ TokenBefore(txt, first) # <<>>
            THEN parse_out.code = TokenBefore(txt, first)
            ELSE parse_out.code = StudentList

\* C18 as amended: the course code is the alphanumeric token immediately
\* before the first occurrence of the label that has such a token before
\* it, and "Student_List" when no occurrence of the label has one.
C18_TokenBeforeFirstLabelWithToken ==
    parse_done # {} =>
        LET txt == parse_in.text
            labels == {p \in LabelPositions(txt) : TokenBefore(txt, p) # <<>>}
            first == CHOOSE p \in labels : \A q \in labels : p <= q
        IN  IF labels # {}
            THEN parse_out.code = TokenBefore(txt, first)
            ELSE parse_out.code = StudentList

\* C18 witness: a text has been parsed in which the label occurs first
\* without a token before it and then twice with one, and the token of the
\* first of these was returned.
C18_Witness ==
    /\ parse_done # {}
    /\ parse_in.text = <<CodeLabel, "A", CodeLabel, "1", CodeLabel>>
    /\ parse_out.code = <<"A">>

\* The <option>s of the Year <select> of the page handed in, each as (value,
\* label): the value attribute ('' when missing) and the trimmed text.
YearOptionsIn == parse_in.selects[id_map["Year"]].options

ValueOf(o) == IF o[1] = NoAttr THEN "" ELSE o[1]

LabelOf(o) == Strip(o[2])

\* A placeholder as the claims describe it.
IsPlaceholder(o) ==
    \/ ValueOf(o) \in {"", "0"}
    \/ \E i \in 1..Len(LabelOf(o)) : LabelOf(o)[i] = "CHOOSE"
    \/ (LabelOf(o) # <<>> /\ LabelOf(o)[1] = "Select")

\* The positions of the options that are no placeholders.
RealPositions == {i \in 1..Len(YearOptionsIn) : ~IsPlaceholder(YearOptionsIn[i])}

\* out is the first n of the options that are no placeholders, in source
\* order.
IsFirstReal(out, n) ==
    /\ Len(out) = n
    /\ \A i \in RealPositions :
          LET rank == Cardinality({k \in RealPositions : k <= i})
          IN  rank <= n =>
                 out[rank] = <<ValueOf(YearOptionsIn[i]),
                               LabelOf(YearOptionsIn[i])>>

Min(a, b) == IF a <= b THEN a ELSE b

\* C19: the cleaned option list holds no option whose value is empty or
\* "0", whose label contains the placeholder marker or starts with "Select",
\* and holds every other option of the <select>, in source order.
C19_CleanedOptionsAreTheRealOnes ==
    parse_done # {} =>
        /\ IsFirstReal(parse_out.gui, Cardinality(RealPositions))
        /\ IsFirstReal(parse_out.std, Cardinality(RealPositions))
        /\ \A j \in 1..Len(parse_out.gui) : ~IsPlaceholder(parse_out.gui[j])
        /\ \A j \in 1..Len(parse_out.std) : ~IsPlaceholder(parse_out.std[j])

\* C19 witness: a <select> has been cleaned that holds a placeholder of each
\* kind between two real options, and the two came out.
C19_Witness ==
    /\ parse_done # {}
    /\ Len(YearOptionsIn) = 6
    /\ YearOptionsIn[2] = <<"0", ChooseLabel>>
    /\ YearOptionsIn[3][2] = <<" ", "Select", "x">>
    /\ YearOptionsIn[4][1] = NoAttr
    /\ YearOptionsIn[5][2] = <<"x", "CHOOSE">>
    /\ parse_out.gui = << <<"4", <<"y", "1">> >>, <<"9", <<"y", "6">> >> >>

\* C20: the Year-step output is exactly the first min(4, k) of the k
\* cleaned entries of the Year option list, in source order.
C20_YearKeepsFirstFour ==
    parse_done # {} =>
        /\ IsFirstReal(parse_out.first, Min(4, Cardinality(RealPositions)))
        /\ IsFirstReal(parse_out.year, Min(4, Cardinality(RealPositions)))
        /\ IsFirstReal(parse_out.shown, Min(4, Cardinality(RealPositions)))

\* C20 witness: the placeholder followed by five real options with the
\* values 5 to 9 gave the four entries with the values 5, 6, 7, 8.
C20_Witness ==
    /\ parse_done # {}
    /\ Len(YearOptionsIn) = 6
    /\ YearOptionsIn[1] = <<"0", ChooseLabel>>
    /\ [i \in 1..5 |-> YearOptionsIn[i + 1][1]] = <<"5", "6", "7", "8", "9">>
    /\ Cardinality(RealPositions) = 5
    /\ [i \in 1..Len(parse_out.first) |-> parse_out.first[i][1]]
          = <<"5", "6", "7", "8">>
    /\ parse_out.year = parse_out.first
    /\ parse_out.shown = parse_out.first

\* The <option>s of the Phase <select> of the page handed in.
PhaseOptionsIn == parse_in.selects[id_map["Phase"]].options

\* The label holds the level marker.
IsLevel(o) == \E i \in 1..Len(LabelOf(o)) : LabelOf(o)[i] = "LEVEL"

\* The positions of the cleaned entries, and of those that are level entries.
CleanPhasePositions ==
    {i \in 1..Len(PhaseOptionsIn) : ~IsPlaceholder(PhaseOptionsIn[i])}

LevelPositions == {i \in CleanPhasePositions : IsLevel(PhaseOptionsIn[i])}

\* out is the level entries, each as (value, label), in source order.
IsLevelEntries(out) ==
    /\ Len(out) = Cardinality(LevelPositions)
    /\ \A i \in LevelPositions :
          out[Cardinality({k \in LevelPositions : k <= i})]
              = <<ValueOf(PhaseOptionsIn[i]), LabelOf(PhaseOptionsIn[i])>>

\* C21: the Phase-step option list is exactly the cleaned entries whose label
\* contains the level marker, in source order; when the cleaned entries mix
\* level and other entries, the list is shorter than the cleaned list.
C21_PhaseKeepsLevelEntries ==
    parse_done # {} =>
        /\ IsLevelEntries(parse_out.phase)
        /\ IsLevelEntries(parse_out.level)
        /\ (LevelPositions # {} /\ LevelPositions # CleanPhasePositions) =>
              /\ Len(parse_out.phase) < Cardinality(CleanPhasePositions)
              /\ Len(parse_out.level) < Cardinality(CleanPhasePositions)

\* C21 witness: a Phase <select> with the placeholder, two level entries
\* around another real entry, and a level label on the value "0" gave the two
\* level entries.
C21_Witness ==
    /\ parse_done # {}
    /\ Len(PhaseOptionsIn) = 5
    /\ PhaseOptionsIn[1] = <<"0", ChooseLabel>>
    /\ PhaseOptionsIn[3][2] = <<"o", "3">>
    /\ PhaseOptionsIn[4] = <<"0", <<"LEVEL">> >>
    /\ parse_out.phase = << <<"5", <<"LEVEL", "2">> >>,
                            <<"8", <<"x", "LEVEL", "5">> >> >>
    /\ parse_out.level = parse_out.phase

\* The page the form codec was run on, and the id of the element the postback
\* names as its override and event target.
FormPageIn == parse_in.page

TargetId == id_map[parse_in.key]

\* The name attribute of the <select> with the target id; '' when the page has
\* no such <select> or it has no name attribute.
TargetSelectName ==
    IF TargetId \in DOMAIN FormPageIn.selects
       /\ FormPageIn.selects[TargetId].name # NoAttr
    THEN FormPageIn.selects[TargetId].name
    ELSE ""

\* form is a cascade postback payload as C22 describes it.
NamesTargetWithoutButton(form) ==
    /\ "__EVENTTARGET" \in DOMAIN form
    /\ form["__EVENTTARGET"] = TargetSelectName
    /\ ReportButton \notin DOMAIN form

\* C22: every cascade postback payload has __EVENTTARGET equal to the name
\* attribute of the <select> whose id is the event-target element id ('' when
\* the page has no such element) and does not hold the report-submission
\* field.
C22_EventTargetIsSelectName ==
    parse_done # {} =>
        /\ parse_out.sent => NamesTargetWithoutButton(parse_out.post)
        /\ NamesTargetWithoutButton(parse_out.request)

\* C22 witness: the page held the report button and a hidden __EVENTTARGET
\* field with an old value, and the payloads of both programs name the
\* Regulation <select>.
C22_Witness ==
    /\ parse_done # {}
    /\ parse_in.key = "Regulation"
    /\ \E i, j, k \in 1..Len(FormPageIn.inputs) :
          /\ FormPageIn.inputs[i].name = ReportButton
          /\ FormPageIn.inputs[j].name = "__EVENTTARGET"
          /\ FormPageIn.inputs[k].name = "__VIEWSTATE"
    /\ parse_out.sent
    /\ parse_out.post["__EVENTTARGET"] = ServerName["Regulation"]
    /\ parse_out.request["__EVENTTARGET"] = ServerName["Regulation"]

\* The override and event target of the postback name an element the page
\* does not have.
TargetAbsent == TargetId \notin DOMAIN FormPageIn.selects

\* C23 as stated: with the target absent, the payload is the extracted field
\* map with __EVENTTARGET set to '', and nothing else differs.
C23_OnlyEventTargetDiffers ==
    (parse_done # {} /\ TargetAbsent) =>
        /\ parse_out.sent =>
              parse_out.post = Put(parse_out.fields, "__EVENTTARGET", "")
        /\ parse_out.request = Put(parse_out.inputs, "__EVENTTARGET", "")

\* The steps of the SelectionSet whose <select> the page has, with a name.
SelectedOnPage ==
    {k \in DOMAIN parse_in.sel :
        /\ id_map[k] \in DOMAIN FormPageIn.selects
        /\ FormPageIn.selects[id_map[k]].name \notin {NoAttr, ""}}

SelectedNames == {FormPageIn.selects[id_map[k]].name : k \in SelectedOnPage}

\* What make_post builds without any override: the extracted fields without
\* the report button, the SelectionSet values of the <select>s of the page,
\* and an empty __EVENTTARGET.
PostWithoutOverride ==
    [x \in ((DOMAIN parse_out.fields) \ {ReportButton})
             \cup SelectedNames \cup {"__EVENTTARGET"} |->
        IF x = "__EVENTTARGET" THEN ""
        ELSE IF x \in SelectedNames
        THEN parse_in.sel[CHOOSE k \in SelectedOnPage :
                            FormPageIn.selects[id_map[k]].name = x]
        ELSE parse_out.fields[x]]

\* What make_post_request builds without any override: the extracted fields
\* without the report button, '0' for each required dropdown field that is
\* missing, and empty __EVENTTARGET, __EVENTARGUMENT and __LASTFOCUS.
RequestWithoutOverride ==
    LET fixed == {"__EVENTTARGET", "__EVENTARGUMENT", "__LASTFOCUS"}
    IN  [x \in ((DOMAIN parse_out.inputs) \ {ReportButton})
                 \cup required_dropdowns \cup fixed |->
            IF x \in fixed THEN ""
            ELSE IF x \in DOMAIN parse_out.inputs THEN parse_out.inputs[x]
            ELSE "0"]

\* C23 amended: with the target absent, the payload is the one the postback
\* has without the override, with __EVENTTARGET set to '': the override adds,
\* removes and changes no key.
C23_AbsentOverrideIsSkipped ==
    (parse_done # {} /\ TargetAbsent) =>
        /\ parse_out.sent => parse_out.post = PostWithoutOverride
        /\ parse_out.request = RequestWithoutOverride

\* C23 witness: the Phase postback was built on a page without the Phase
\* <select> that holds the report button and the Regulation <select>, with
\* Regulation in the SelectionSet.
C23_Witness ==
    /\ parse_done # {}
    /\ TargetAbsent
    /\ parse_in.key = "Phase"
    /\ parse_out.sent
    /\ ReportButton \in DOMAIN parse_out.fields
    /\ SelectedOnPage = {"Regulation"}
    /\ parse_out.post[ServerName["Regulation"]] = "7"
    /\ parse_out.post["__EVENTTARGET"] = ""
    /\ ServerName["Phase"] \notin DOMAIN parse_out.post
    /\ parse_out.request[ServerName["Phase"]] = "0"

\* The names of the named <input>s of the page, and for each the value of
\* the last <input> of that name ('' when it has no value attribute).
NamedInputs ==
    {i \in 1..Len(FormPageIn.inputs) :
        FormPageIn.inputs[i].name \notin {NoAttr, ""}}

InputNames == {FormPageIn.inputs[i].name : i \in NamedInputs}

InputEntries ==
    [n \in InputNames |->
        LET last == CHOOSE i \in NamedInputs :
                      /\ FormPageIn.inputs[i].name = n
                      /\ \A j \in NamedInputs :
                            FormPageIn.inputs[j].name = n => j <= i
        IN  IF FormPageIn.inputs[last].value = NoAttr THEN ""
            ELSE FormPageIn.inputs[last].value]

\* The named <select>s of the page, and for each the value of its selected
\* <option>, else of its first <option>, else ''.
NamedSelects ==
    {i \in DOMAIN FormPageIn.selects :
        FormPageIn.selects[i].name \notin {NoAttr, ""}}

SelectNames == {FormPageIn.selects[i].name : i \in NamedSelects}

SelectEntry(n) ==
    LET s == FormPageIn.selects[CHOOSE i \in NamedSelects :
                                  FormPageIn.selects[i].name = n]
        o == IF s.selected # 0 THEN <<s.options[s.selected]>>
             ELSE IF s.options # <<>> THEN <<s.options[1]>>
             ELSE <<>>
    IN  IF o = <<>> \/ o[1][1] = NoAttr THEN "" ELSE o[1][1]

\* C24 as stated: in both programs the field extractor returns one entry per
\* named <input> (value defaulting to '') and none derived from a <select>.
C24_FieldsAreTheNamedInputs ==
    parse_done # {} =>
        /\ parse_out.fields = InputEntries
        /\ parse_out.inputs = InputEntries

\* C24 amended: get_form_data returns one entry per named <input> and none
\* derived from a <select>; get_all_form_inputs returns those entries and one
\* more per named <select>, which takes the place of an input of that name.
C24_FieldsAreInputsAndInStdListSelects ==
    parse_done # {} =>
        /\ parse_out.fields = InputEntries
        /\ parse_out.inputs =
              [n \in InputNames \cup SelectNames |->
                  IF n \in SelectNames THEN SelectEntry(n)
                  ELSE InputEntries[n]]

\* C24 witness: the page held an input without a value, one without a name
\* and the Regulation <select> with its second option selected.
C24_Witness ==
    /\ parse_done # {}
    /\ Len(FormPageIn.inputs) = 3
    /\ FormPageIn.inputs[1] = [name |-> "h", value |-> NoAttr]
    /\ FormPageIn.inputs[2].name = NoAttr
    /\ id_map["Regulation"] \in DOMAIN FormPageIn.selects
    /\ FormPageIn.selects[id_map["Regulation"]].selected = 2
    /\ parse_out.fields = [n \in {"h", "__VIEWSTATE"} |->
                             IF n = "h" THEN "" ELSE ViewState(1)]
    /\ parse_out.inputs[ServerName["Regulation"]] = "5"

\* Thread t returns from make_post in this step: from its guard, or with the
\* answer to its request.
ReturnsFromMakePost(t) ==
    /\ t \in 1..Len(threads)
    /\ threads[t].pc \in {"mp_build", "mp_recv"}
    /\ \/ threads' = RemoveAt(threads, t)
       \/ /\ Len(threads') = Len(threads)
          /\ threads'[t].pc \notin {"mp_build", "mp_send", "mp_recv"}

\* The page current_soup held when thread t called make_post.
PageAtCall(t) ==
    IF threads[t].pc = "mp_build" THEN current_soup ELSE threads[t].soup

\* C25: when make_post returns False current_soup is what it was before the
\* call, and when it returns True current_soup is the parse of the answer to
\* its request, a 200 answer.
C25_PageReplacedOnlyBySuccess ==
    [][\A t \in 1..Len(threads) :
          ReturnsFromMakePost(t) =>
            /\ \/ current_soup' = PageAtCall(t)
               \/ /\ threads[t].pc = "mp_recv"
                  /\ current_soup' \in PostbackAnswers(threads[t].up)
                  /\ current_soup'.st = 200
            /\ (Len(threads') = Len(threads) /\ ~threads'[t].ok) =>
                  current_soup' = PageAtCall(t)
            /\ (Len(threads') = Len(threads) /\ threads'[t].ok) =>
                  /\ threads[t].pc = "mp_recv"
                  /\ current_soup' \in PostbackAnswers(threads[t].up)
                  /\ current_soup'.st = 200
      ]_vars

\* Thread t takes this step: it moves on, or it ends.
Acts(t) ==
    /\ t \in 1..Len(threads)
    /\ \/ threads' = RemoveAt(threads, t)
       \/ Len(threads') = Len(threads) /\ threads'[t] # threads[t]

Ends(t) == threads' = RemoveAt(threads, t)

\* The process_next_step thread of a selection of the step key.
StepThread(t, key) ==
    threads[t].kind = "step" /\ threads[t].key = key

\* The name of the <select> of a step on the current page, '' when the page
\* has no such <select>.
NameOnPage(key) ==
    IF id_map[key] \in DOMAIN current_soup.selects
    THEN current_soup.selects[id_map[key]].name
    ELSE ""

\* std_list.main at its Course step: one postback that names the Course
\* <select>, then the report request main itself makes, or the end of main.
CliCoursePostsOnce ==
    (cli_pc = "post" /\ cli_step = 9) =>
        /\ cli_form'["__EVENTTARGET"] = ServerName["Subject"]
        /\ cli_pc' \in {"report_post", "done"}
        /\ cli_step' = cli_step
        /\ cli_soup' = cli_soup

\* C26 as stated: the thread of a Course selection sends one postback, whose
\* __EVENTTARGET is the Course element, and ends with its answer; it loads no
\* step and sends no report request.
C26_CourseSendsOnePostbackAndStops ==
    [][/\ \A t \in 1..Len(threads) :
          (StepThread(t, "Subject") /\ Acts(t)) =>
            /\ afterq' = afterq
            /\ threads[t].pc \in {"mp_build", "mp_send", "mp_recv"}
            /\ threads[t].pc = "mp_build" =>
                  /\ ~Ends(t)
                  /\ threads'[t].pc = "mp_send"
                  /\ threads'[t].form["__EVENTTARGET"] = ServerName["Subject"]
            /\ threads[t].pc = "mp_send" =>
                  ~Ends(t) /\ threads'[t].pc = "mp_recv"
            /\ threads[t].pc = "mp_recv" => Ends(t)
       /\ CliCoursePostsOnce
      ]_vars

\* C26 amended: the thread of a Course selection sends one postback when the
\* current page holds __VIEWSTATE and none otherwise; the postback names the
\* Course <select> of the current page as __EVENTTARGET; the thread ends with
\* the answer or at the guard; it loads no step and sends no report request.
C26_CourseSendsAtMostOnePostbackAndStops ==
    [][/\ \A t \in 1..Len(threads) :
          (StepThread(t, "Subject") /\ Acts(t)) =>
            /\ afterq' = afterq
            /\ threads[t].pc \in {"mp_build", "mp_send", "mp_recv"}
            /\ threads[t].pc = "mp_build" =>
                  IF CanPost(current_soup)
                  THEN /\ ~Ends(t)
                       /\ threads'[t].pc = "mp_send"
                       /\ threads'[t].form["__EVENTTARGET"]
                             = NameOnPage("Subject")
                  ELSE Ends(t)
            /\ threads[t].pc = "mp_send" =>
                  ~Ends(t) /\ threads'[t].pc = "mp_recv"
            /\ threads[t].pc = "mp_recv" => Ends(t)
       /\ CliCoursePostsOnce
      ]_vars

\* C26 witness: the thread of a Course selection has sent its postback, which
\* names the Course <select>, and nothing is scheduled.
C26_Witness ==
    /\ afterq = <<>>
    /\ \E t \in 1..Len(threads) :
          /\ StepThread(t, "Subject")
          /\ threads[t].pc = "mp_recv"
          /\ threads[t].up = session
          /\ threads[t].form["__EVENTTARGET"] = ServerName["Subject"]
          /\ ReportButton \notin DOMAIN threads[t].form

\* The form data carries the value val in the field of the <select> of a step.
Carries(form, key, val) ==
    ServerName[key] \in DOMAIN form /\ form[ServerName[key]] = val

\* C27: the thread of a Year or Faculty selection sends no request; the
\* thread of a Regulation selection sends one postback, which carries the
\* chosen Year, Faculty and Regulation values and names the Regulation
\* element as __EVENTTARGET. std_list.main sends nothing at its Year and
\* Faculty steps and the same postback at its Regulation step.
C27_RegulationPostsTheFirstThree ==
    [][/\ \A t \in 1..Len(threads) :
            /\ ((StepThread(t, "Year") \/ StepThread(t, "Faculty")) /\ Acts(t))
                  => (threads[t].pc = "s_load" /\ Ends(t))
            /\ (StepThread(t, "Regulation") /\ Acts(t)
                   /\ threads[t].pc = "mp_build") =>
                  /\ ~Ends(t)
                  /\ threads'[t].pc = "mp_send"
                  /\ threads'[t].form["__EVENTTARGET"]
                        = ServerName["Regulation"]
                  /\ Carries(threads'[t].form, "Regulation", threads[t].val)
                  /\ \A k \in {"Year", "Faculty"} :
                        /\ k \in DOMAIN selections
                        /\ Carries(threads'[t].form, k, selections[k])
            /\ (StepThread(t, "Regulation") /\ Acts(t)
                   /\ threads[t].pc = "mp_send") =>
                  ~Ends(t) /\ threads'[t].pc = "mp_recv"
       /\ (cli_pc = "select" /\ cli_step \in {1, 2}) => cli_form' = cli_form
       /\ (cli_pc = "post" /\ cli_step = 3) =>
              /\ cli_form'["__EVENTTARGET"] = ServerName["Regulation"]
              /\ \A k \in {"Year", "Faculty", "Regulation"} :
                    /\ id_map[k] \in DOMAIN cli_updates
                    /\ Carries(cli_form', k, cli_updates[id_map[k]])
      ]_vars

\* The main loop runs the scheduled callback i, an update_combo, in this step.
UpdateComboRuns(i) ==
    /\ i \in 1..Len(afterq)
    /\ afterq[i].fn = "update_combo"
    /\ threads' = threads
    /\ dropdown_map' = Put(dropdown_map, afterq[i].key, afterq[i].options)
    /\ Len(afterq') \in {Len(afterq) - 1, Len(afterq)}
    /\ SubSeq(afterq', 1, Len(afterq) - 1) = RemoveAt(afterq, i)

\* on_selection(key) as update_combo schedules it.
AutoSelection(key) == Callback("on_selection", key, <<>>, -1)

\* The value of the first <option> of a <select> that is no placeholder.
FirstRealValue(sel) ==
    LET real == {i \in 1..Len(sel.options) : ~IsPlaceholder(sel.options[i])}
    IN  ValueOf(sel.options[CHOOSE i \in real : \A j \in real : i <= j])

\* C28: when the Faculty or Door step loads a non-empty option list, entry 0
\* is selected and on_selection is scheduled for it with no choice of the
\* caller; when Regulation, Dept, Semester, SubjSem or Subject loads one, no
\* entry is selected, nothing is scheduled and the SelectionSet is left
\* alone, and a thread for such a step is only ever started by a selection
\* from outside, never by a scheduled callback. std_list.main takes entry 0
\* at its Faculty and Door steps.
C28_OnlyFacultyAndDoorAutoSelect ==
    [][/\ \A i \in 1..Len(afterq) :
            (UpdateComboRuns(i) /\ afterq[i].options # <<>>) =>
               LET key == afterq[i].key
               IN  /\ key \in {"Faculty", "Door"} =>
                         /\ combos'[key].cur = 0
                         /\ afterq' = Append(RemoveAt(afterq, i),
                                             AutoSelection(key))
                   /\ key \in {"Regulation", "Dept", "Semester", "SubjSem",
                                "Subject"} =>
                         /\ combos'[key].cur = -1
                         /\ combos'[key].state = "readonly"
                         /\ afterq' = RemoveAt(afterq, i)
                         /\ selections' = selections
       /\ \A k \in {"Regulation", "Dept", "Semester", "SubjSem", "Subject"} :
            /\ OnSelectionRan(k) => afterq' = afterq
            /\ \A i \in 1..Len(afterq') : afterq'[i] # AutoSelection(k)
       /\ (cli_pc = "select" /\ cli_step \in {2, 7} /\ cli_pc' # "done") =>
              LET id == id_map[CliStepName(cli_step)]
              IN  cli_updates'[id] = FirstRealValue(cli_soup.selects[id])
      ]_vars

\* C28 witness: the Door step has loaded its options, entry 0 is selected
\* and on_selection is scheduled for it, while Semester waited for the
\* selection that led here.
C28_Witness ==
    /\ afterq = <<AutoSelection("Door")>>
    /\ combos["Door"].cur = 0
    /\ "Door" \notin DOMAIN selections
    /\ "Semester" \in DOMAIN selections
    /\ threads = <<>>

\* The profile button's handler goes past its guard in this step: nothing
\* else assigns current_profile.
ToggleAccountRuns == current_profile' # current_profile

\* C30: toggle_account, run with no batch in progress, replaces the session
\* by one never used before and leaves, with the new login thread not yet
\* started on its first request, an empty SelectionSet, an empty option
\* cache, every step combo disabled and empty, and the fetch and batch
\* buttons disabled.
C30_ToggleAccountResetsTheCascade ==
    [][(ToggleAccountRuns /\ ~is_batch_running) =>
          /\ session' > session
          /\ selections' = EmptyMap
          /\ dropdown_map' = EmptyMap
          /\ \A k \in Steps :
                /\ combos'[k].state = "disabled"
                /\ combos'[k].cur = -1
                /\ combos'[k].n = 0
          /\ btn_fetch' = "disabled"
          /\ btn_batch' = "disabled"
          /\ threads' = Append(threads, NewThread("login", "", "", <<>>))
      ]_vars

\* C30 witness: the account was switched while a cascade step was still in
\* flight (so a selection had been made), and the new login has not started.
C30_Witness ==
    /\ current_profile = "Education"
    /\ session = 2
    /\ selections = EmptyMap
    /\ dropdown_map = EmptyMap
    /\ btn_fetch = "disabled"
    /\ Len(threads) = 2
    /\ threads[1].kind = "step"
    /\ threads[2] = NewThread("login", "", "", <<>>)

\* The records parse_results de-duplicates, in the order of the loop.
SortedRecords == SortById(CollectRecords(ScannedRows(parse_in)))

\* The position of the first record of s with the name of record m.
KeptFor(s, m) ==
    CHOOSE f \in 1..m :
        /\ s[f].name = s[m].name
        /\ \A g \in 1..(f - 1) : s[g].name # s[m].name

\* Record m of s is dropped: an earlier record has its name.
IsDropped(s, m) == KeptFor(s, m) # m

\* The positions of the dropped records of s whose id is not the kept one's.
CollidingPositions(s) ==
    SelectSeq([m \in 1..Len(s) |-> m],
              LAMBDA m : /\ IsDropped(s, m)
                         /\ s[KeptFor(s, m)].id # s[m].id)

\* C31: parse_results returns for every page, and the warnings it logs are,
\* in order, the names of the dropped records whose id differs from the id of
\* the kept record of the same name: a dropped record with the kept id logs
\* nothing.
C31_WarningIffIdDiffers ==
    "gui" \in parse_done =>
        LET s == SortedRecords
            at == CollidingPositions(s)
        IN  /\ Len(parse_out.warned) = Len(at)
            /\ \A k \in 1..Len(at) : parse_out.warned[k] = s[at[k]].name
            /\ Len(parse_out.gui)
                  + Cardinality({m \in 1..Len(s) : IsDropped(s, m)}) = Len(s)

\* C31 witness: three records of one name, two with the kept id and one with
\* another: one is dropped silently, one with a warning.
C31_Witness ==
    /\ "gui" \in parse_done
    /\ LET s == SortedRecords
       IN  /\ Len(s) = 3
           /\ Len(parse_out.gui) = 1
           /\ s[2].id = s[1].id
           /\ s[3].id # s[1].id
           /\ parse_out.warned = <<s[3].name>>

\* C32: for every report page, gui_std.parse_results,
\* std_list.extract_names_and_code and list_students.extract_names_and_code
\* produce the same ordered list of student names.
C32_SameNamesInEveryVariant ==
    parse_done = {"gui", "std", "ls"} =>
        /\ NamesOf(parse_out.gui) = parse_out.std
        /\ parse_out.std = parse_out.ls

\* The steps before a step of the fixed sequence.
EarlierSteps(key) == {k \in Steps : SeqIndex(k) < SeqIndex(key)}

\* C33: in every reachable state of gui_std the steps in the SelectionSet
\* are a contiguous prefix of the fixed sequence, and a combo is enabled only
\* if every earlier step is in the SelectionSet.
C33_SelectionsArePrefixAndGateCombos ==
    /\ \A k \in DOMAIN selections : EarlierSteps(k) \subseteq DOMAIN selections
    /\ \A k \in Steps :
          combos[k].state # "disabled" =>
              EarlierSteps(k) \subseteq DOMAIN selections

\* C34: DOWNLOAD CURRENT is enabled (start_single_fetch can run) only in
\* states where the SelectionSet holds Subject and the Subject postback is
\* over: no step thread of a Subject selection is still at work. (Whether
\* that postback succeeded is not kept in the state; the claim asks for
\* that on top of what is stated here.)
C34_FetchOnlyAfterSubjectPostback ==
    btn_fetch = "normal" =>
        /\ "Subject" \in DOMAIN selections
        /\ \A t \in 1..Len(threads) :
              ~(threads[t].kind = "step" /\ threads[t].key = "Subject")

\* C35: the report request of std_list.main carries the Course chosen at
\* step 9 in the field of the Course <select>.
C35_ReportCarriesChosenCourse ==
    cli_pc = "report_get" =>
        LET field == ServerName["Subject"]
        IN  /\ field \in DOMAIN cli_form
            /\ cli_form[field] = cli_updates[id_map["Subject"]]

\* A batch_worker thread is alive.
BatchAlive == \E t \in 1..Len(threads) : threads[t].kind = "batch"

\* The number of live batch_worker threads.
BatchCount(ths) == Cardinality({t \in 1..Len(ths) : ths[t].kind = "batch"})

\* C36: every started batch eventually ends, whatever postbacks or report
\* fetches fail, and the step that ends it leaves is_batch_running False and
\* finish_batch_ui scheduled on the main loop.
C36_BatchEventuallyEnds ==
    /\ BatchAlive ~> ~BatchAlive
    /\ [][BatchCount(threads') < BatchCount(threads) =>
            /\ is_batch_running' = FALSE
            /\ Len(afterq') = Len(afterq) + 1
            /\ afterq'[Len(afterq')].fn = "finish_batch_ui"]_vars

\* The SelectionSet without its Subject entry.
OtherSelections(sel) == Restrict(sel, Steps \ {"Subject"})

\* C37: while a batch is running, that is from start_batch_process to the
\* end of its batch_worker, no step changes the session, the current profile
\* or the SelectionSet entry of a step other than Subject.
C37_BatchFreezesSessionAndSelections ==
    [][BatchAlive =>
          /\ session' = session
          /\ current_profile' = current_profile
          /\ OtherSelections(selections') = OtherSelections(selections)]_vars

\* start_batch_process runs in this step: a batch_worker thread is added.
BatchStarts == BatchCount(threads') > BatchCount(threads)

\* The stop flag goes from clear to set in this step.
StopIsSet == ~stop_event /\ stop_event'

\* C38: a cancellation never leaks into a later batch. The step that starts
\* a batch leaves the stop flag clear, whatever cancel_batch and the end of
\* the previous worker left in it, and from then on the flag is set by a
\* press of STOP only: so the worker finds it clear at its first check
\* unless STOP was pressed after that batch was started.
C38_CancelDoesNotLeak ==
    [][/\ BatchStarts => ~stop_event'
       /\ StopIsSet => /\ btn_cancel = "normal"
                       /\ btn_cancel' = "disabled"
                       /\ is_batch_running
                       /\ ~BatchStarts
      ]_vars

\* C38 witness: STOP was pressed as the worker ended, which left the stop
\* flag set with no batch running, and finish_batch_ui has enabled DOWNLOAD
\* ALL again: the next batch can be started with the flag still set.
C38_Witness ==
    /\ stop_event
    /\ ~is_batch_running
    /\ threads = <<>>
    /\ afterq = <<>>
    /\ btn_batch = "normal"
    /\ btn_cancel = "disabled"
    /\ Get(dropdown_map, "Subject", <<>>) # <<>>

\* C39: the header labels extract_table_headers returns are pairwise
\* distinct, whatever the header row.
C39_HeaderLabelsAreDistinct ==
    "report" \in parse_done => Distinct(parse_out.headers)

====
